---- MODULE Spec2Model ----
(***************************************************************************)
(* Model of the session lifecycle controller of livekit-share:             *)
(* src/src/hooks/useLiveKitRoom.ts (the useLiveKitRoom hook) driven by the *)
(* controls that PresenterPage.tsx / ViewerPage.tsx render, against a      *)
(* transport (livekit-client Room objects) modelled as the environment.    *)
(*                                                                         *)
(* One step of the model is one JavaScript task: a user gesture, a timer   *)
(* callback, a transport event with the handlers registered for it, or the *)
(* continuation of an await.  A transport promise that settles together    *)
(* with the event it emits (connect -> ConnectionStateChanged, publish ->  *)
(* LocalTrackPublished) is one step: the handler runs, then the            *)
(* continuation, with no other task in between.                            *)
(*                                                                         *)
(* The other stateful parts of the pages have specifications of their own  *)
(* over their own variables: the viewer's lobby gate (usePresenterSignal   *)
(* on top of useLiveKitRoom, SpecViewer), the presenter-ready broadcast on *)
(* a clock (SpecTimed), the chat log (useLiveKitChat, SpecChat), the       *)
(* participant roster (ParticipantList.tsx, SpecRoster; with its unmount,  *)
(* SpecGrace), the reconnect policy handed to the transport (SpecBackoff), *)
(* the pages' effects that send the join and share system messages         *)
(* (SpecPage), the order of the statements of connect() that register the  *)
(* handlers and open the transport (SpecRegister), the audio sinks that    *)
(* muteParticipant selects (SpecMute), the data channel heard by both the  *)
(* chat and the presenter-ready listener (SpecChannel), and the get-config *)
(* function read by two browsers (SpecConfig).                             *)
(***************************************************************************)
EXTENDS Integers, FiniteSets, Sequences, TLC

\* ---- bounds of the model ----
MaxRooms == 2        \* Room objects created in a run
MaxPending == 1      \* connect() invocations awaiting their token at a time
MaxCalls == 2        \* connect() invocations by the page (button, link, effect)
MaxRejoins == 1      \* rejoin() invocations
MaxHandles == 1      \* remote audio track handles
MaxReconnects == 1   \* Reconnecting events per connect() (reconnectAttempts)
MaxGestures == 2     \* presses of the media controls (mic, speaker, share, restart)
MaxTime == 5500      \* ms: how far the clock of the timed scenario runs
TickMs == 500        \* ms: the clock stops at every multiple of it and at every deadline
LatencyMs == 1       \* ms from publishData to DataReceived
MaxLog == 2          \* entries the chat log may grow to
MaxSends == 2        \* messages the local user sends
MaxRosterTime == 16000  \* ms: how far the clock of the roster's timers runs
RosterTickMs == 4000    \* ms: that clock stops at every multiple of it and at every deadline
MaxRetryCount == 10     \* the largest context.retryCount the reconnect policy is asked about
MaxEmits == 2           \* events the transport emits on a new room

Rooms == 1..MaxRooms
Handles == 1..MaxHandles
NoRoom == 0
NoSink == "none"
NoTimer == -1
NoDelay == -1        \* the reconnect policy has not been asked
GiveUp == -2         \* the reconnect policy answered null

\* the participants of the room as the participant list sees them
LocalIdentity == "viewer-me"
RemoteIdentities == {"presenter-1", "alice", "bob"}
AllIdentities == RemoteIdentities \cup {LocalIdentity}

\* the livekit_config table: no row, or one row of four columns
NoRow == [url |-> "undefined", api_key |-> "undefined", api_secret |-> "undefined",
          updated_at |-> "undefined"]
Rows == [url : {"wss://a", "wss://b"}, api_key : {"key1", "key2"},
         api_secret : {"secret1", "secret2"}, updated_at : {"t1"}]

\* an HTTP response of get-config, by its status and the fields of its JSON body
Response(st, c, u, k, t, e) ==
  [status |-> st, configured |-> c, url |-> u, apiKey |-> k, updatedAt |-> t, error |-> e]
NoResponse == Response("none", "undefined", "undefined", "undefined", "undefined", "undefined")

\* identities and track sids as strings of characters, for the audio sinks'
\* ids: `${participant.identity}-${publication.trackSid}`
MuteIdentities == { << "v", "1" >>, << "v", "1", "0" >>, << "p" >> }
TrackSids == { << "A" >>, << "B" >> }
TrackIdOf(id, sid) == id \o << "-" >> \o sid
TrackIds == { TrackIdOf(id, sid) : id \in MuteIdentities, sid \in TrackSids }

VARIABLES
  role,               \* props.role: "presenter" | "viewer"
  status,             \* useState<ConnectionStatus>
  error,              \* useState error: "none" | "connect" | "other"
  roomRef,            \* roomRef.current: a room or NoRoom (null)
  tok,                \* connect() invocations awaiting the token, by the isSpeakerEnabled they captured
  nRooms,             \* Room objects created so far
  nCalls,             \* connect() invocations by the page so far
  nRejoins,           \* rejoin() invocations so far
  cpc,                \* the connect() invocation that created Room k: where it is suspended
  cspk,               \* isSpeakerEnabled as captured by the handlers connect() k registered
  rstate,             \* transport: Room k's connection state
  sub,                \* transport: remote audio tracks subscribed in Room k
  scr,                \* transport: Room k lists a screen-share publication with a track
  attached,           \* attachedTracksRef: handle -> NoSink | "on" | "muted"
  dom,                \* number of audio elements rendered for a handle
  timer,              \* mediaTimeoutRef.current # null
  isSpeakerEnabled,
  isMicEnabled,
  isScreenSharing,
  wasMic,             \* wasMicEnabledRef.current   (desiredMic)
  wasScreen,          \* wasScreenSharingRef.current (desiredScreenShare)
  reconnectAttempts,
  dpc,                \* disconnect(): "none" | "closing" (awaiting room.disconnect())
  droom,              \* the room disconnect() is closing
  tpc,                \* media-timeout callback: "none" | "closing"
  troom,              \* the room the timeout callback is closing
  jpc,                \* rejoin(): "none" | "disc" | "delay"
  hpc,                \* rehydrateMedia(): "none" | "mic" | "screen"
  hroom,              \* the room rehydrateMedia() awaits a publish on
  jspk,               \* isSpeakerEnabled as captured by rejoin's closure
  nGestures,          \* presses of the media controls so far
  presenterReady,     \* usePresenterSignal: useState presenterReady
  effConnected,       \* isConnected as of the last run of the hook's [isConnected] effect
  readyDelivered,     \* history: the listener was handed a presenter-ready payload since the last reset
  now,                \* ms on the clock shared by the two pages
  pConnected,         \* presenter page: the isConnected prop of usePresenterSignal
  pConnectedAt,       \* when it last turned true, or NoTimer
  initialDelay,       \* presenter page: when the setTimeout(300) fires, or NoTimer
  intervalAt,         \* presenter page: when intervalRef's setInterval(5000) next fires, or NoTimer
  inflight,           \* delivery times of the presenter-ready payloads published and not yet delivered
  vConnected,         \* viewer page of the timed scenario: isConnected with its room
  vConnectedAt,       \* when it last turned true, or NoTimer
  messages,           \* useLiveKitChat: useState messages, the chat log
  chatRoom,           \* useLiveKitChat: the room prop is a Room (not null)
  nSent,              \* ids generateId() has produced so far
  outbox,             \* payloads handed to publishData that the transport still holds
  lastPayload,        \* history: the payload handleDataReceived was last called with
  localPresent,       \* ParticipantList: the localParticipant prop is not null
  participants,       \* ParticipantList: the participants prop, remote identities in join order
  roster,             \* ParticipantList: useState roster
  known,              \* knownIdentitiesRef.current
  graceTimers,        \* graceTimersRef.current: identity -> when its timer fires, or NoTimer
  pending,            \* identity -> the deadlines of its setTimeout calls neither fired nor cleared
  rosterNow,          \* ms on the clock of the roster's timers
  retryCount,         \* transport: context.retryCount of the reconnect episode
  delay,              \* what nextRetryDelayInMs returned for it, NoDelay before the call
  prevDelay,          \* history: what it returned for the retry before, or NoDelay
  waitedMs,           \* history: the delays of the episode's failed retries, summed
  hasJoined,          \* page: hasJoinedRef.current
  joinTimeout,        \* page: the join effect's setTimeout(500) is pending
  prevIsScreenSharing,\* page: prevIsScreenSharingRef.current
  effStatus,          \* page: status as of the last run of the page's effects
  effRoom,            \* page: room as of the last run of the page's effects
  sysOut,             \* history: the system messages the page published since the last 'ended'
  stmt,               \* connect(): the next statement of its body between new Room and the await (301-423)
  handlers,           \* transport: the events the new room has a listener for
  opened,             \* transport: newRoom.connect() has been called
  handled,            \* history: the events emitted and delivered to a listener
  missed,             \* history: the events emitted while no listener was registered
  nEmitted,           \* history: events the transport emitted
  audio,              \* attachedTracksRef as muteParticipant sees it: trackId -> NoSink | "on" | "muted"
  hasRoom,            \* roomRef.current # null when muteParticipant is called
  rowA,               \* livekit_config: the stored row of one deployment, or NoRow
  rowB,               \* livekit_config: the stored row of a second deployment, or NoRow
  respA,              \* get-config: the response body and status for rowA, NoResponse before the call
  respB,              \* get-config: the response body and status for rowB
  configA,            \* useLiveKitConfig: config state of a browser of the first deployment
  configB             \* useLiveKitConfig: config state of a browser of the second deployment

vars == << role, status, error, roomRef, tok, nRooms, nCalls, nRejoins, cpc, cspk, rstate, sub, scr,
           attached, dom, timer, isSpeakerEnabled, isMicEnabled, isScreenSharing,
           wasMic, wasScreen, reconnectAttempts, dpc, droom, tpc, troom, jpc,
           hpc, hroom, jspk, nGestures, presenterReady, effConnected, readyDelivered,
           now, pConnected, pConnectedAt, initialDelay, intervalAt, inflight,
           vConnected, vConnectedAt, messages, chatRoom, nSent, outbox, lastPayload,
           localPresent, participants, roster, known, graceTimers, pending, rosterNow,
           retryCount, delay, prevDelay, waitedMs,
           hasJoined, joinTimeout, prevIsScreenSharing, effStatus, effRoom, sysOut,
           stmt, handlers, opened, handled, missed, nEmitted,
           audio, hasRoom,
           rowA, rowB, respA, respB, configA, configB >>

\* the state of the page's other hooks and components, which useLiveKitRoom
\* never writes
signalVars == << presenterReady, effConnected, readyDelivered >>
timedVars == << now, pConnected, pConnectedAt, initialDelay, intervalAt, inflight,
               vConnected, vConnectedAt >>
chatVars == << messages, chatRoom, nSent, outbox, lastPayload >>
rosterVars == << localPresent, participants, roster, known, graceTimers, pending, rosterNow >>
backoffVars == << retryCount, delay, prevDelay, waitedMs >>
effectVars == << hasJoined, joinTimeout, prevIsScreenSharing, effStatus, effRoom, sysOut >>
registerVars == << stmt, handlers, opened, handled, missed, nEmitted >>
muteVars == << audio, hasRoom >>
configVars == << rowA, rowB, respA, respB, configA, configB >>
sideVars == << signalVars, timedVars, chatVars, rosterVars, backoffVars, effectVars,
              registerVars,
              muteVars,
              configVars >>

\* ---- what the pages enable (PresenterPage.tsx, ViewerPage.tsx, ControlBar.tsx) ----
isConnected == status \in {"waiting", "live", "connected", "publishing", "reconnecting"}

\* "Start Session" / "Retry Connection" (presenter); the auto-connect effect and
\* the "Reconnect" link (viewer).
CanConnect ==
  \/ role = "presenter" /\ status \in {"idle", "ended", "failed", "error"}
  \/ role = "viewer" /\ status \in {"idle", "ended"}

\* "Rejoin Meeting": VideoDisplay and ControlBar show it in failed/error; the
\* viewer page renders neither of them unless isConnected.
CanRejoin == role = "presenter" /\ status \in {"failed", "error"}

\* Leave button: disabled = !isConnected && !isReconnecting
CanLeave == isConnected

\* mic / speaker / share / restart-audio buttons: disabled = !isConnected || isReconnecting
CanUseMedia == isConnected /\ status # "reconnecting"

\* ---- pure helpers of the hook ----

\* findScreenTrack() # null, for roomRef.current = rr and publications s
HasScreenTrack(rr, s) == rr # NoRoom /\ s[rr]

\* roomRef.current?.state === ConnectionState.Connected
RoomIsConnected(rr, rs) == rr # NoRoom /\ rs[rr] = "connected"

\* a connect() whose catch reports the failure under another status
CatchStatusError == "error"

\* the status the catch of connect() sets (448)
CatchStatus == "failed"

\* a connect() that gives up when the microphone step is over
ConnectFinalStatusFailed == "failed"

\* the status connect() sets last, after its microphone step (442)
ConnectFinalStatus == "waiting"

\* a handler that counts a Reconnecting event twice
NextAttemptsTwice(n) == n + 2

\* setReconnectAttempts(prev => prev + 1)
NextAttempts(n) == n + 1

\* an updateScreenTrack that leaves the status alone
UpdateScreenStatusKeep(st, rr, s, rs) == st

\* updateScreenTrack(): the status it leaves, starting from status st
UpdateScreenStatus(st, rr, s, rs) ==
  IF HasScreenTrack(rr, s) THEN "live"
  ELSE IF RoomIsConnected(rr, rs) THEN "waiting"
  ELSE st

\* updateScreenTrack(): the media timeout it leaves
UpdateScreenTimer(tm, rr, s) == IF HasScreenTrack(rr, s) THEN FALSE ELSE tm

\* an attachAudioTrack without its has(trackId) guard
AlreadyAttachedNever(att, h) == FALSE

\* attachedTracksRef.current.has(trackId)
AlreadyAttached(att, h) == att[h] # NoSink

\* audioElement.muted = !isSpeakerEnabled, with the isSpeakerEnabled of the closure
SinkFor(spk) == IF spk THEN "on" ELSE "muted"

\* attachAudioTrack(): the map, the rendered elements and the timeout it leaves
AttachMap(att, h, spk) ==
  IF AlreadyAttached(att, h) THEN att ELSE [att EXCEPT ![h] = SinkFor(spk)]

AttachDom(att, d, h) ==
  IF AlreadyAttached(att, h) THEN d ELSE [d EXCEPT ![h] = @ + 1]

AttachTimer(att, tm, h) == IF AlreadyAttached(att, h) THEN tm ELSE FALSE

\* detachAudioTrack()
DetachMap(att, h) == [att EXCEPT ![h] = NoSink]

DetachDom(att, d, h) ==
  IF att[h] # NoSink THEN [d EXCEPT ![h] = @ - 1] ELSE d

\* a reattach pass that visits no publication
ReattachSetNone(rr, sb) == {}

\* reattachAllAudioTracks(): attachAudioTrack for every subscribed audio track
\* of roomRef.current (S is that set; {} when roomRef.current is null)
ReattachSet(rr, sb) == IF rr = NoRoom THEN {} ELSE sb[rr]

ReattachMap(att, S, spk) ==
  [h \in Handles |-> IF h \in S THEN AttachMap(att, h, spk)[h] ELSE att[h]]

ReattachDom(att, d, S) ==
  [h \in Handles |-> IF h \in S THEN AttachDom(att, d, h)[h] ELSE d[h]]

ReattachTimer(att, tm, S) ==
  IF \E h \in S : ~AlreadyAttached(att, h) THEN FALSE ELSE tm

\* updateSpeakerMuteState(muted)
\* an updateSpeakerMuteState that writes no element
SpeakerMuteMapKeep(att, muted) == att

SpeakerMuteMap(att, muted) ==
  [h \in Handles |-> IF att[h] = NoSink THEN NoSink
                     ELSE IF muted THEN "muted" ELSE "on"]

\* disconnect() / unmount: element.remove() for every entry, then clear()
ClearedMap == [h \in Handles |-> NoSink]

ClearedDom(att, d) ==
  [h \in Handles |-> IF att[h] # NoSink THEN d[h] - 1 ELSE d[h]]

\* startMediaTimeout(): clearMediaTimeout(), then arm for the viewer only
StartMediaTimeout(r) == r = "viewer"

\* a timeout callback without its .then: the Disconnected handler's status stays
TimeoutStatusEnded == "ended"

\* the status the media-timeout callback sets once the room has disconnected
TimeoutFinalStatus == "idle"

\* RoomEvent.Disconnected / ConnectionStateChanged(Disconnected): the handlers
\* leave the attached map alone
DisconnectedMap(att) == att

InitHooks ==
  /\ role \in {"presenter", "viewer"}
  /\ status = "idle"
  /\ error = "none"
  /\ roomRef = NoRoom
  /\ tok = [b \in BOOLEAN |-> 0]
  /\ nRooms = 0
  /\ nCalls = 0
  /\ nRejoins = 0
  /\ cpc = [k \in Rooms |-> "none"]
  /\ cspk = [k \in Rooms |-> TRUE]
  /\ rstate = [k \in Rooms |-> "none"]
  /\ sub = [k \in Rooms |-> {}]
  /\ scr = [k \in Rooms |-> FALSE]
  /\ attached = [h \in Handles |-> NoSink]
  /\ dom = [h \in Handles |-> 0]
  /\ timer = FALSE
  /\ isSpeakerEnabled = TRUE
  /\ isMicEnabled = FALSE
  /\ isScreenSharing = FALSE
  /\ wasMic = FALSE
  /\ wasScreen = FALSE
  /\ reconnectAttempts = 0
  /\ dpc = "none" /\ droom = NoRoom
  /\ tpc = "none" /\ troom = NoRoom
  /\ jpc = "none" /\ jspk = TRUE
  /\ hpc = "none" /\ hroom = NoRoom
  /\ nGestures = 0
  /\ presenterReady = FALSE
  /\ effConnected = FALSE
  /\ readyDelivered = FALSE
  /\ now = 0
  /\ pConnected = FALSE /\ pConnectedAt = NoTimer
  /\ initialDelay = NoTimer /\ intervalAt = NoTimer
  /\ inflight = {}
  /\ vConnected = FALSE /\ vConnectedAt = NoTimer
  /\ localPresent = FALSE
  /\ participants = << >>
  /\ roster = << >>
  /\ known = {}
  /\ graceTimers = [id \in AllIdentities |-> NoTimer]
  /\ pending = [id \in AllIdentities |-> << >>]
  /\ rosterNow = 0
  /\ messages = << >>
  /\ chatRoom = FALSE
  /\ nSent = 0
  /\ outbox = {}
  /\ lastPayload = [json |-> "none", id |-> "undefined", type |-> "undefined",
                     from |-> "undefined", role |-> "undefined", text |-> "undefined",
                     ts |-> "undefined"]

\* the other parts as constructed: the page effects, the new room's
\* listeners, the audio sinks muteParticipant sees
InitSide ==
  /\ audio = [t \in TrackIds |-> NoSink]
  /\ hasRoom = FALSE
  /\ stmt = 1
  /\ handlers = {}
  /\ opened = FALSE
  /\ handled = {}
  /\ missed = {}
  /\ nEmitted = 0
  /\ hasJoined = FALSE
  /\ joinTimeout = FALSE
  /\ prevIsScreenSharing = FALSE
  /\ effStatus = "idle"
  /\ effRoom = NoRoom
  /\ sysOut = << >>

\* no reconnect episode has asked the policy anything
InitPolicy ==
  /\ retryCount = 0
  /\ delay = NoDelay
  /\ prevDelay = NoDelay
  /\ waitedMs = 0

\* no configuration is stored and none was fetched
InitStore ==
  /\ rowA = NoRow
  /\ rowB = NoRow
  /\ respA = NoResponse
  /\ respB = NoResponse
  /\ configA = NoResponse
  /\ configB = NoResponse

Init == InitHooks /\ InitSide /\ InitPolicy /\ InitStore

\* groups of variables for the frame conditions
transportVars == << rstate, sub, scr >>
sinkVars == << attached, dom >>
mediaFlags == << isMicEnabled, isScreenSharing, wasMic, wasScreen >>
discVars == << dpc, droom >>
tmoVars == << tpc, troom >>
rejoinVars == << jpc, jspk, nRejoins >>
hydVars == << hpc, hroom >>
connVars == << tok, nRooms, nCalls, cpc, cspk >>

\* all the state of useLiveKitRoom
pageVars == << role, status, error, roomRef, connVars, transportVars,
               sinkVars, timer, isSpeakerEnabled, mediaFlags, reconnectAttempts,
               discVars, tmoVars, rejoinVars, hydVars, nGestures >>

\* what lies outside the viewer page's lobby gate, the timed presenter-ready
\* scenario, the chat hook and the participant list
outsideViewer == << timedVars, chatVars, rosterVars, backoffVars, effectVars,
                  registerVars,
                  muteVars,
                  configVars >>
outsideTimed == << pageVars, effConnected, readyDelivered, chatVars, rosterVars,
                  backoffVars, effectVars,
                  registerVars,
                  muteVars,
                  configVars >>
outsideChat == << pageVars, signalVars, timedVars, rosterVars, backoffVars, effectVars,
                  registerVars,
                  muteVars,
                  configVars >>
outsideRoster == << pageVars, signalVars, timedVars, chatVars, backoffVars, effectVars,
                  registerVars,
                  muteVars,
                  configVars >>
outsideBackoff == << pageVars, signalVars, timedVars, chatVars, rosterVars, effectVars,
                  registerVars,
                  muteVars,
                  configVars >>
outsideEffects == << signalVars, timedVars, chatVars, rosterVars, backoffVars,
                  registerVars,
                  muteVars,
                  configVars >>
outsideRegister == << pageVars, signalVars, timedVars, chatVars,
                  rosterVars, backoffVars, effectVars,
                  muteVars,
                  configVars >>
outsideMute == << pageVars, signalVars, timedVars, chatVars,
                  rosterVars, backoffVars, effectVars, registerVars,
                  configVars >>
outsideConfig == << pageVars, signalVars, timedVars, chatVars,
                  rosterVars, backoffVars, effectVars, registerVars, muteVars >>

\* ---- connect() (useLiveKitRoom.ts 264-450) ----

\* connect() up to its first await: setStatus('connecting'), setError(null),
\* setReconnectAttempts(0), then the token request is in flight.  spk is the
\* isSpeakerEnabled of the render whose connect was called.
BeginConnect(spk) ==
  /\ tok[TRUE] + tok[FALSE] < MaxPending
  /\ tok' = [tok EXCEPT ![spk] = @ + 1]
  /\ status' = "connecting"
  /\ error' = "none"
  /\ reconnectAttempts' = 0

\* the user presses Start Session / Retry Connection / Reconnect, or the
\* viewer page's auto-connect effect runs
Connect ==
  /\ CanConnect
  /\ nCalls < MaxCalls
  /\ nCalls' = nCalls + 1
  /\ BeginConnect(isSpeakerEnabled)
  /\ UNCHANGED << role, roomRef, nRooms, cpc, cspk, transportVars, sinkVars, timer,
                  isSpeakerEnabled, mediaFlags, discVars, tmoVars, rejoinVars,
                  hydVars, nGestures >>
  /\ UNCHANGED sideVars

\* generate-token answered with an error: throw, catch -> 'failed'
TokenFail(spk) ==
  /\ tok[spk] > 0
  /\ tok' = [tok EXCEPT ![spk] = @ - 1]
  /\ error' = "connect"
  /\ status' = CatchStatus
  /\ UNCHANGED << role, roomRef, nRooms, nCalls, cpc, cspk, transportVars, sinkVars,
                  timer, isSpeakerEnabled, mediaFlags, reconnectAttempts, discVars,
                  tmoVars, rejoinVars, hydVars, nGestures >>
  /\ UNCHANGED sideVars

\* token received: new Room (the next one, nRooms + 1), roomRef.current = newRoom,
\* the handlers are registered (they close over spk), newRoom.connect() is issued
TokenOk(spk) ==
  /\ tok[spk] > 0
  /\ nRooms < MaxRooms
  /\ tok' = [tok EXCEPT ![spk] = @ - 1]
  /\ nRooms' = nRooms + 1
  /\ cpc' = [cpc EXCEPT ![nRooms + 1] = "open"]
  /\ cspk' = [cspk EXCEPT ![nRooms + 1] = spk]
  /\ roomRef' = nRooms + 1
  /\ rstate' = [rstate EXCEPT ![nRooms + 1] = "connecting"]
  /\ UNCHANGED << role, status, error, nCalls, sub, scr, sinkVars, timer,
                  isSpeakerEnabled, mediaFlags, reconnectAttempts, discVars,
                  tmoVars, rejoinVars, hydVars, nGestures >>
  /\ UNCHANGED sideVars

\* newRoom.connect() resolves: ConnectionStateChanged(Connected) runs its handler
\* (setStatus('connected'), updateScreenTrack()), then connect() continues with
\* setStatus('publishing') and awaits setMicrophoneEnabled(true)
ConnectOk(k) ==
  /\ cpc[k] = "open"
  /\ rstate[k] = "connecting"
  /\ rstate' = [rstate EXCEPT ![k] = "connected"]
  /\ cpc' = [cpc EXCEPT ![k] = "mic"]
  /\ timer' = UpdateScreenTimer(timer, roomRef, scr)
  /\ status' = "publishing"
  /\ UNCHANGED << role, error, roomRef, tok, nRooms, nCalls, cspk, sub, scr, sinkVars,
                  isSpeakerEnabled, mediaFlags, reconnectAttempts, discVars,
                  tmoVars, rejoinVars, hydVars, nGestures >>
  /\ UNCHANGED sideVars

\* newRoom.connect() rejects (also when the room was disconnected while it was
\* connecting).  ev: the room emits Disconnected before the promise rejects.
ConnectFail(k) ==
  /\ cpc[k] = "open"
  /\ \E ev \in BOOLEAN :
       /\ ev => rstate[k] = "connecting"
       /\ timer' = IF ev THEN FALSE ELSE timer
       /\ attached' = IF ev THEN DisconnectedMap(attached) ELSE attached
  /\ rstate' = [rstate EXCEPT ![k] = "disconnected"]
  /\ cpc' = [cpc EXCEPT ![k] = "done"]
  /\ error' = "connect"
  /\ status' = CatchStatus
  /\ UNCHANGED << role, roomRef, tok, nRooms, nCalls, cspk, sub, scr, dom, isSpeakerEnabled,
                  mediaFlags, reconnectAttempts, discVars, tmoVars, rejoinVars,
                  hydVars, nGestures >>
  /\ UNCHANGED sideVars

\* setMicrophoneEnabled(true) of connect() settles.  ok: LocalTrackPublished runs
\* its handler (setStatus('publishing'), updateScreenTrack()), then
\* setIsMicEnabled(true), wasMicEnabledRef = true.  Either way connect() goes on:
\* startMediaTimeout(), updateParticipants(), setStatus('waiting').
MicSettled(k) ==
  /\ cpc[k] = "mic"
  /\ \E ok \in BOOLEAN :
       /\ ok => rstate[k] = "connected"
       /\ isMicEnabled' = IF ok THEN TRUE ELSE isMicEnabled
       /\ wasMic' = IF ok THEN TRUE ELSE wasMic
  /\ cpc' = [cpc EXCEPT ![k] = "done"]
  /\ timer' = StartMediaTimeout(role)
  /\ status' = ConnectFinalStatus
  /\ UNCHANGED << role, error, roomRef, tok, nRooms, nCalls, cspk, transportVars, sinkVars,
                  isSpeakerEnabled, isScreenSharing, wasScreen, reconnectAttempts,
                  discVars, tmoVars, rejoinVars, hydVars, nGestures >>
  /\ UNCHANGED sideVars

\* ---- disconnect() (452-473), the media timeout (91-106), rejoin() (476-482) ----

\* Room k reaches Disconnected and emits ConnectionStateChanged(Disconnected) and
\* Disconnected unless it already was disconnected; the transport forgets the
\* room's participants and publications.
ClosedTimer(k, tm) == IF rstate[k] = "disconnected" THEN tm ELSE FALSE

ClosedMap(k, att) == IF rstate[k] = "disconnected" THEN att ELSE DisconnectedMap(att)

CloseRoom(k) ==
  /\ rstate' = [rstate EXCEPT ![k] = "disconnected"]
  /\ sub' = [sub EXCEPT ![k] = {}]
  /\ scr' = [scr EXCEPT ![k] = FALSE]

\* disconnect() up to its await: only when roomRef.current is set; removes every
\* audio element, clears the map and the timeout, calls roomRef.current.disconnect()
BeginDisconnect ==
  /\ dpc = "none"
  /\ IF roomRef = NoRoom
       THEN UNCHANGED << sinkVars, timer, discVars >>
       ELSE /\ attached' = ClearedMap
            /\ dom' = ClearedDom(attached, dom)
            /\ timer' = FALSE
            /\ dpc' = "closing"
            /\ droom' = roomRef

\* the user presses Leave
Disconnect ==
  /\ CanLeave
  /\ BeginDisconnect
  /\ UNCHANGED << role, status, error, roomRef, connVars, transportVars,
                  isSpeakerEnabled, mediaFlags, reconnectAttempts, tmoVars,
                  rejoinVars, hydVars, nGestures >>
  /\ UNCHANGED sideVars

\* room.disconnect() of disconnect() resolves: the room's Disconnected handlers
\* have run (setStatus('ended'), clearMediaTimeout()), then disconnect() continues
DisconnectDone ==
  /\ dpc = "closing"
  /\ CloseRoom(droom)
  /\ attached' = ClosedMap(droom, attached)
  /\ timer' = ClosedTimer(droom, timer)
  /\ roomRef' = NoRoom
  /\ status' = "ended"
  /\ isMicEnabled' = FALSE
  /\ isScreenSharing' = FALSE
  /\ wasScreen' = FALSE
  /\ wasMic' = FALSE
  /\ dpc' = "none"
  /\ droom' = NoRoom
  /\ jpc' = IF jpc = "disc" THEN "delay" ELSE jpc
  /\ UNCHANGED << role, error, connVars, dom, isSpeakerEnabled, reconnectAttempts,
                  tmoVars, jspk, nRejoins, hydVars, nGestures >>
  /\ UNCHANGED sideVars

\* the media timeout fires: setError(...), and if roomRef.current is set,
\* roomRef.current.disconnect().then(() => setStatus('idle'))
TimeoutFires ==
  /\ timer
  /\ tpc = "none"
  /\ timer' = FALSE
  /\ error' = "other"
  /\ IF roomRef = NoRoom
       THEN UNCHANGED tmoVars
       ELSE tpc' = "closing" /\ troom' = roomRef
  /\ UNCHANGED << role, status, roomRef, connVars, transportVars, sinkVars,
                  isSpeakerEnabled, mediaFlags, reconnectAttempts, discVars,
                  rejoinVars, hydVars, nGestures >>
  /\ UNCHANGED sideVars

\* the disconnect started by the timeout resolves: Disconnected handlers, then
\* the .then callback
TimeoutDisconnected ==
  /\ tpc = "closing"
  /\ CloseRoom(troom)
  /\ attached' = ClosedMap(troom, attached)
  /\ timer' = ClosedTimer(troom, timer)
  /\ status' = TimeoutFinalStatus
  /\ tpc' = "none"
  /\ troom' = NoRoom
  /\ UNCHANGED << role, error, roomRef, connVars, dom, isSpeakerEnabled, mediaFlags,
                  reconnectAttempts, discVars, rejoinVars, hydVars, nGestures >>
  /\ UNCHANGED sideVars

\* the user presses Rejoin Meeting: rejoin() runs disconnect() up to its await
\* (or through, when roomRef.current is null) 
Rejoin ==
  /\ CanRejoin
  /\ jpc = "none"
  /\ nRejoins < MaxRejoins
  /\ nRejoins' = nRejoins + 1
  /\ BeginDisconnect
  /\ jpc' = IF roomRef = NoRoom THEN "delay" ELSE "disc"
  /\ jspk' = isSpeakerEnabled
  /\ UNCHANGED << role, status, error, roomRef, connVars, transportVars,
                  isSpeakerEnabled, mediaFlags, reconnectAttempts, tmoVars,
                  hydVars, nGestures >>
  /\ UNCHANGED sideVars

\* the 500 ms delay of rejoin() is over: connect()
RejoinConnect ==
  /\ jpc = "delay"
  /\ BeginConnect(jspk)
  /\ jpc' = "none"
  /\ jspk' = TRUE
  /\ UNCHANGED << role, roomRef, nRooms, nCalls, nRejoins, cpc, cspk, transportVars,
                  sinkVars, timer, isSpeakerEnabled, mediaFlags, discVars, tmoVars,
                  hydVars, nGestures >>
  /\ UNCHANGED sideVars

\* ---- transport events and their handlers (307-420) ----

\* ConnectionStateChanged(Reconnecting): setStatus('reconnecting'),
\* setReconnectAttempts(prev => prev + 1).  keep: whether the transport still
\* lists the room's subscriptions and publications while it reconnects.
ReconnectingEvt(k) ==
  /\ rstate[k] = "connected"
  /\ reconnectAttempts < MaxReconnects
  /\ rstate' = [rstate EXCEPT ![k] = "reconnecting"]
  /\ \E keep \in BOOLEAN :
       /\ sub' = [sub EXCEPT ![k] = IF keep THEN @ ELSE {}]
       /\ scr' = [scr EXCEPT ![k] = IF keep THEN @ ELSE FALSE]
  /\ status' = "reconnecting"
  /\ reconnectAttempts' = NextAttempts(reconnectAttempts)
  /\ UNCHANGED << role, error, roomRef, connVars, sinkVars, timer, isSpeakerEnabled,
                  mediaFlags, discVars, tmoVars, rejoinVars, hydVars, nGestures >>
  /\ UNCHANGED sideVars

\* rehydrateMedia() up to its first await: what it awaits, if anything
RehydrateFirstAwait ==
  IF roomRef = NoRoom THEN "none"
  ELSE IF wasMic THEN "mic"
  ELSE IF role = "presenter" /\ wasScreen THEN "screen"
  ELSE "none"

\* ConnectionStateChanged(Connected) after a reconnect (setStatus('connected'),
\* updateScreenTrack()), then RoomEvent.Reconnected: setStatus('connected'),
\* rehydrateMedia() up to its first await, reattachAllAudioTracks() with the
\* attachAudioTrack that connect() k captured.
ReconnectedEvt(k) ==
  /\ rstate[k] = "reconnecting"
  /\ hpc = "none"
  /\ rstate' = [rstate EXCEPT ![k] = "connected"]
  /\ hpc' = RehydrateFirstAwait
  /\ hroom' = IF RehydrateFirstAwait = "none" THEN NoRoom ELSE roomRef
  /\ status' = IF roomRef = NoRoom \/ RehydrateFirstAwait # "none"
                 THEN "connected"
                 ELSE UpdateScreenStatus("connected", roomRef, scr, rstate')
  /\ LET S == ReattachSet(roomRef, sub) IN
       /\ attached' = ReattachMap(attached, S, cspk[k])
       /\ dom' = ReattachDom(attached, dom, S)
       /\ timer' = ReattachTimer(attached, UpdateScreenTimer(timer, roomRef, scr), S)
  /\ UNCHANGED << role, error, roomRef, connVars, sub, scr, isSpeakerEnabled,
                  mediaFlags, reconnectAttempts, discVars, tmoVars, rejoinVars, nGestures >>
  /\ UNCHANGED sideVars

\* the room is disconnected by the server, or gives up reconnecting:
\* ConnectionStateChanged(Disconnected) and Disconnected -> setStatus('ended'),
\* clearMediaTimeout()
DisconnectedEvt(k) ==
  /\ rstate[k] \in {"connected", "reconnecting"}
  /\ CloseRoom(k)
  /\ status' = "ended"
  /\ timer' = FALSE
  /\ attached' = DisconnectedMap(attached)
  /\ UNCHANGED << role, error, roomRef, connVars, dom, isSpeakerEnabled, mediaFlags,
                  reconnectAttempts, discVars, tmoVars, rejoinVars, hydVars, nGestures >>
  /\ UNCHANGED sideVars

\* TrackSubscribed for a remote audio track: attachAudioTrack (closure of
\* connect() k), updateScreenTrack(), updateParticipants()
TrackSubscribedAudio(k, h) ==
  /\ rstate[k] = "connected"
  /\ h \notin sub[k]
  /\ sub' = [sub EXCEPT ![k] = @ \cup {h}]
  /\ attached' = AttachMap(attached, h, cspk[k])
  /\ dom' = AttachDom(attached, dom, h)
  /\ timer' = UpdateScreenTimer(AttachTimer(attached, timer, h), roomRef, scr)
  /\ status' = UpdateScreenStatus(status, roomRef, scr, rstate)
  /\ UNCHANGED << role, error, roomRef, connVars, rstate, scr, isSpeakerEnabled,
                  mediaFlags, reconnectAttempts, discVars, tmoVars, rejoinVars,
                  hydVars, nGestures >>
  /\ UNCHANGED sideVars

\* TrackUnsubscribed for a remote audio track: detachAudioTrack, updateScreenTrack()
TrackUnsubscribedAudio(k, h) ==
  /\ rstate[k] = "connected"
  /\ h \in sub[k]
  /\ sub' = [sub EXCEPT ![k] = @ \ {h}]
  /\ attached' = DetachMap(attached, h)
  /\ dom' = DetachDom(attached, dom, h)
  /\ timer' = UpdateScreenTimer(timer, roomRef, scr)
  /\ status' = UpdateScreenStatus(status, roomRef, scr, rstate)
  /\ UNCHANGED << role, error, roomRef, connVars, rstate, scr, isSpeakerEnabled,
                  mediaFlags, reconnectAttempts, discVars, tmoVars, rejoinVars,
                  hydVars, nGestures >>
  /\ UNCHANGED sideVars

\* TrackSubscribed for the presenter's screen-share video (seen by a viewer)
TrackSubscribedScreen(k) ==
  /\ role = "viewer"
  /\ rstate[k] = "connected"
  /\ ~scr[k]
  /\ scr' = [scr EXCEPT ![k] = TRUE]
  /\ timer' = UpdateScreenTimer(timer, roomRef, scr')
  /\ status' = UpdateScreenStatus(status, roomRef, scr', rstate)
  /\ UNCHANGED << role, error, roomRef, connVars, rstate, sub, sinkVars,
                  isSpeakerEnabled, mediaFlags, reconnectAttempts, discVars,
                  tmoVars, rejoinVars, hydVars, nGestures >>
  /\ UNCHANGED sideVars

\* TrackUnsubscribed for the screen-share video (viewer), or LocalTrackUnpublished
\* for the presenter's own screen track when the browser ends the capture
ScreenTrackGone(k) ==
  /\ rstate[k] = "connected"
  /\ scr[k]
  /\ scr' = [scr EXCEPT ![k] = FALSE]
  /\ timer' = UpdateScreenTimer(timer, roomRef, scr')
  /\ status' = UpdateScreenStatus(status, roomRef, scr', rstate)
  /\ UNCHANGED << role, error, roomRef, connVars, rstate, sub, sinkVars,
                  isSpeakerEnabled, mediaFlags, reconnectAttempts, discVars,
                  tmoVars, rejoinVars, hydVars, nGestures >>
  /\ UNCHANGED sideVars

\* TrackPublished, TrackUnpublished, ParticipantDisconnected: updateScreenTrack()
PublicationEvt(k) ==
  /\ rstate[k] = "connected"
  /\ timer' = UpdateScreenTimer(timer, roomRef, scr)
  /\ status' = UpdateScreenStatus(status, roomRef, scr, rstate)
  /\ UNCHANGED << role, error, roomRef, connVars, transportVars, sinkVars,
                  isSpeakerEnabled, mediaFlags, reconnectAttempts, discVars,
                  tmoVars, rejoinVars, hydVars, nGestures >>
  /\ UNCHANGED sideVars

\* ---- local publications: events that come with a settled publish ----

\* LocalTrackPublished handler (setStatus('publishing'), updateScreenTrack()) when
\* the publish emitted the event (ev); s is the publications after the publish
PublishedStatus(ev, st, rr, s, rs) ==
  IF ev THEN UpdateScreenStatus("publishing", rr, s, rs) ELSE st

\* LocalTrackUnpublished handler (updateScreenTrack())
UnpublishedStatus(ev, st, rr, s, rs) ==
  IF ev THEN UpdateScreenStatus(st, rr, s, rs) ELSE st

EventTimer(ev, tm, rr, s) == IF ev THEN UpdateScreenTimer(tm, rr, s) ELSE tm

\* ---- rehydrateMedia() continuations (215-243) ----

\* setMicrophoneEnabled(true) of rehydrateMedia() settles.  ok: setIsMicEnabled(true),
\* then the screen-share step for a presenter that was sharing (a TypeError when
\* roomRef.current is null by then, caught), else updateScreenTrack().  Not ok:
\* the catch ends rehydrateMedia(), the screen-share step included.
RehydrateMicSettled ==
  /\ hpc = "mic"
  /\ \E ok \in BOOLEAN, ev \in BOOLEAN :
       /\ ok => rstate[hroom] = "connected"
       /\ ev => ok
       /\ LET wantScreen == ok /\ role = "presenter" /\ wasScreen
              st1 == PublishedStatus(ev, status, roomRef, scr, rstate)
              tm1 == EventTimer(ev, timer, roomRef, scr)
          IN
          /\ isMicEnabled' = IF ok THEN TRUE ELSE isMicEnabled
          /\ hpc' = IF wantScreen /\ roomRef # NoRoom THEN "screen" ELSE "none"
          /\ hroom' = IF wantScreen /\ roomRef # NoRoom THEN roomRef ELSE NoRoom
          /\ status' = IF ok /\ ~wantScreen
                         THEN UpdateScreenStatus(st1, roomRef, scr, rstate)
                         ELSE st1
          /\ timer' = IF ok /\ ~wantScreen
                        THEN UpdateScreenTimer(tm1, roomRef, scr)
                        ELSE tm1
  /\ UNCHANGED << role, error, roomRef, connVars, transportVars, sinkVars,
                  isSpeakerEnabled, isScreenSharing, wasMic, wasScreen,
                  reconnectAttempts, discVars, tmoVars, rejoinVars, nGestures >>
  /\ UNCHANGED sideVars

\* setScreenShareEnabled(true, ...) of rehydrateMedia() settles.  ok: the screen
\* track is published on the room, setIsScreenSharing(true), updateScreenTrack()
RehydrateScreenSettled ==
  /\ hpc = "screen"
  /\ \E ok \in BOOLEAN, ev \in BOOLEAN :
       /\ ok => rstate[hroom] = "connected"
       /\ ev => ok
       /\ scr' = IF ok THEN [scr EXCEPT ![hroom] = TRUE] ELSE scr
       /\ isScreenSharing' = IF ok THEN TRUE ELSE isScreenSharing
       /\ status' = IF ok
                      THEN UpdateScreenStatus(
                             PublishedStatus(ev, status, roomRef, scr', rstate),
                             roomRef, scr', rstate)
                      ELSE status
       /\ timer' = IF ok THEN UpdateScreenTimer(timer, roomRef, scr') ELSE timer
  /\ hpc' = "none"
  /\ hroom' = NoRoom
  /\ UNCHANGED << role, error, roomRef, connVars, rstate, sub, sinkVars,
                  isSpeakerEnabled, isMicEnabled, wasMic, wasScreen,
                  reconnectAttempts, discVars, tmoVars, rejoinVars, nGestures >>
  /\ UNCHANGED sideVars

\* ---- the user's media controls (485-590) ----

\* toggleSpeaker(): setIsSpeakerEnabled(!isSpeakerEnabled),
\* updateSpeakerMuteState(!newState)
ToggleSpeaker ==
  /\ CanUseMedia
  /\ nGestures < MaxGestures
  /\ nGestures' = nGestures + 1
  /\ isSpeakerEnabled' = ~isSpeakerEnabled
  /\ attached' = SpeakerMuteMap(attached, isSpeakerEnabled)
  /\ UNCHANGED << role, status, error, roomRef, connVars, transportVars, dom, timer,
                  mediaFlags, reconnectAttempts, discVars, tmoVars, rejoinVars,
                  hydVars >>
  /\ UNCHANGED sideVars

\* A media operation that the user starts (toggleMicrophone, startScreenShare,
\* stopScreenShare, restartAudio) is one step here: the call and the settlement of
\* its transport request.  The awaits of connect(), disconnect(), rejoin(),
\* rehydrateMedia() and of the timeout callback are interleaved with every other
\* task; those of the user's media operations are not.

\* toggleMicrophone(): setMicrophoneEnabled(!isMicEnabled); ok: setIsMicEnabled,
\* wasMicEnabledRef = newState; else setError(...)
ToggleMicrophone ==
  /\ CanUseMedia
  /\ nGestures < MaxGestures
  /\ nGestures' = nGestures + 1
  /\ roomRef # NoRoom
  /\ \E ok \in BOOLEAN, ev \in BOOLEAN :
       /\ (ok /\ ~isMicEnabled) => rstate[roomRef] = "connected"
       /\ ev => (ok /\ rstate[roomRef] = "connected")
       /\ isMicEnabled' = IF ok THEN ~isMicEnabled ELSE isMicEnabled
       /\ wasMic' = IF ok THEN ~isMicEnabled ELSE wasMic
       /\ error' = IF ok THEN error ELSE "other"
       /\ status' = IF ~isMicEnabled
                      THEN PublishedStatus(ev, status, roomRef, scr, rstate)
                      ELSE UnpublishedStatus(ev, status, roomRef, scr, rstate)
       /\ timer' = EventTimer(ev, timer, roomRef, scr)
  /\ UNCHANGED << role, roomRef, connVars, transportVars, sinkVars, isSpeakerEnabled,
                  isScreenSharing, wasScreen, reconnectAttempts, discVars, tmoVars,
                  rejoinVars, hydVars >>
  /\ UNCHANGED sideVars

\* startScreenShare() (presenter's share button while not sharing):
\* setScreenShareEnabled(true, ...); ok: setIsScreenSharing(true),
\* wasScreenSharingRef = true, updateScreenTrack(); else setError(...)
StartScreenShare ==
  /\ role = "presenter"
  /\ CanUseMedia
  /\ nGestures < MaxGestures
  /\ nGestures' = nGestures + 1
  /\ ~isScreenSharing
  /\ roomRef # NoRoom
  /\ \E ok \in BOOLEAN, ev \in BOOLEAN :
       /\ ok => rstate[roomRef] = "connected"
       /\ ev => ok
       /\ scr' = IF ok THEN [scr EXCEPT ![roomRef] = TRUE] ELSE scr
       /\ isScreenSharing' = IF ok THEN TRUE ELSE isScreenSharing
       /\ wasScreen' = IF ok THEN TRUE ELSE wasScreen
       /\ error' = IF ok THEN error ELSE "other"
       /\ status' = IF ok
                      THEN UpdateScreenStatus(
                             PublishedStatus(ev, status, roomRef, scr', rstate),
                             roomRef, scr', rstate)
                      ELSE status
       /\ timer' = IF ok THEN UpdateScreenTimer(timer, roomRef, scr') ELSE timer
  /\ UNCHANGED << role, roomRef, connVars, rstate, sub, sinkVars, isSpeakerEnabled,
                  isMicEnabled, wasMic, reconnectAttempts, discVars, tmoVars,
                  rejoinVars, hydVars >>
  /\ UNCHANGED sideVars

\* stopScreenShare() (the share button while sharing): setScreenShareEnabled(false);
\* ok: setIsScreenSharing(false), wasScreenSharingRef = false, updateScreenTrack();
\* else only a log line
StopScreenShare ==
  /\ role = "presenter"
  /\ CanUseMedia
  /\ nGestures < MaxGestures
  /\ nGestures' = nGestures + 1
  /\ isScreenSharing
  /\ roomRef # NoRoom
  /\ \E ok \in BOOLEAN :
       /\ scr' = IF ok THEN [scr EXCEPT ![roomRef] = FALSE] ELSE scr
       /\ isScreenSharing' = IF ok THEN FALSE ELSE isScreenSharing
       /\ wasScreen' = IF ok THEN FALSE ELSE wasScreen
       /\ status' = IF ok THEN UpdateScreenStatus(status, roomRef, scr', rstate)
                          ELSE status
       /\ timer' = IF ok THEN UpdateScreenTimer(timer, roomRef, scr') ELSE timer
  /\ UNCHANGED << role, error, roomRef, connVars, rstate, sub, sinkVars,
                  isSpeakerEnabled, isMicEnabled, wasMic, reconnectAttempts,
                  discVars, tmoVars, rejoinVars, hydVars >>
  /\ UNCHANGED sideVars

\* restartAudio(): setMicrophoneEnabled(false), 200 ms, setMicrophoneEnabled(true);
\* ok: setIsMicEnabled(true), wasMicEnabledRef = true, reattachAllAudioTracks();
\* else setError(...)
RestartAudio ==
  /\ CanUseMedia
  /\ nGestures < MaxGestures
  /\ nGestures' = nGestures + 1
  /\ roomRef # NoRoom
  /\ \E ok \in BOOLEAN, ev \in BOOLEAN :
       /\ ok => rstate[roomRef] = "connected"
       /\ ev => ok
       /\ LET S == IF ok THEN ReattachSet(roomRef, sub) ELSE {} IN
            /\ attached' = ReattachMap(attached, S, isSpeakerEnabled)
            /\ dom' = ReattachDom(attached, dom, S)
            /\ timer' = ReattachTimer(attached, EventTimer(ev, timer, roomRef, scr), S)
       /\ isMicEnabled' = IF ok THEN TRUE ELSE isMicEnabled
       /\ wasMic' = IF ok THEN TRUE ELSE wasMic
       /\ error' = IF ok THEN error ELSE "other"
       /\ status' = PublishedStatus(ev, status, roomRef, scr, rstate)
  /\ UNCHANGED << role, roomRef, connVars, transportVars, isSpeakerEnabled,
                  isScreenSharing, wasScreen, reconnectAttempts, discVars, tmoVars,
                  rejoinVars, hydVars >>
  /\ UNCHANGED sideVars

\* ---- the next-state relation ----

Next ==
  \/ Connect
  \/ \E spk \in BOOLEAN : TokenFail(spk)
  \/ \E spk \in BOOLEAN : TokenOk(spk)
  \/ \E k \in Rooms : ConnectOk(k)
  \/ \E k \in Rooms : ConnectFail(k)
  \/ \E k \in Rooms : MicSettled(k)
  \/ Disconnect
  \/ DisconnectDone
  \/ TimeoutFires
  \/ TimeoutDisconnected
  \/ Rejoin
  \/ RejoinConnect
  \/ \E k \in Rooms : ReconnectingEvt(k)
  \/ \E k \in Rooms : ReconnectedEvt(k)
  \/ \E k \in Rooms : DisconnectedEvt(k)
  \/ \E k \in Rooms, h \in Handles : TrackSubscribedAudio(k, h)
  \/ \E k \in Rooms, h \in Handles : TrackUnsubscribedAudio(k, h)
  \/ \E k \in Rooms : TrackSubscribedScreen(k)
  \/ \E k \in Rooms : ScreenTrackGone(k)
  \/ \E k \in Rooms : PublicationEvt(k)
  \/ RehydrateMicSettled
  \/ RehydrateScreenSettled
  \/ ToggleSpeaker
  \/ ToggleMicrophone
  \/ StartScreenShare
  \/ StopScreenShare
  \/ RestartAudio

Spec == Init /\ [][Next]_vars

\* ---- properties ----

\* transport sessions that are open or opening
LiveRooms == {k \in Rooms : rstate[k] \in {"connecting", "connected", "reconnecting"}}

\* C1: connect() while a session is already connected is a no-op, so at most
\* one transport session is live per hook instance, whatever the sequence of
\* connect / disconnect / rejoin calls and transport events.
C1_AtMostOneLiveSession == Cardinality(LiveRooms) <= 1

\* C2: when connect() completes (its microphone step has settled) the status is
\* Live if a screen-share track is visible in the session and Waiting if none is,
\* whether the track events arrived before or after the microphone settled.
C2_SettlesLiveOrWaiting ==
  [][\A k \in Rooms :
       (MicSettled(k) /\ roomRef = k /\ rstate[k] = "connected")
         => status' = (IF scr[k] THEN "live" ELSE "waiting")]_vars

C4_NoTimeoutWithMedia ==
  [][TimeoutFires
       => ~(/\ roomRef # NoRoom
            /\ rstate[roomRef] = "connected"
            /\ \/ scr[roomRef]
               \/ \E h \in sub[roomRef] : attached[h] # NoSink)]_vars

\* C5: for a viewer the media timeout is restarted on every transport reconnect:
\* after the Reconnected handler of the current session, whose connect() has
\* completed and which shows no media, the timeout is armed.
C5_TimeoutRestartedOnReconnect ==
  [][\A k \in Rooms :
       (/\ ReconnectedEvt(k)
        /\ role = "viewer"
        /\ roomRef = k
        /\ cpc[k] = "done"
        /\ dpc = "none"
        /\ tpc = "none"
        /\ sub[k] = {}
        /\ ~scr[k]
        /\ \A h \in Handles : attached[h] = NoSink)
         => timer']_vars

\* C6: rehydration after a reconnect re-applies the intent: it requests the
\* microphone iff desiredMic, and for a presenter the screen share iff
\* desiredScreenShare; a rehydration never ends with a desired screen share that
\* it has not requested.
C6_RehydrationReappliesIntent ==
  /\ [][\A k \in Rooms :
          (ReconnectedEvt(k) /\ roomRef # NoRoom)
            => /\ (hpc' = "mic") <=> wasMic
               /\ (hpc' = "none") => ~(role = "presenter" /\ wasScreen)]_vars
  /\ [][(/\ RehydrateMicSettled
          /\ role = "presenter"
          /\ wasScreen
          /\ roomRef = hroom
          /\ rstate[hroom] = "connected"
          /\ ~scr[hroom])
          => hpc' = "screen"]_vars

\* C7: after a reconnect every remote audio handle that is subscribed in the
\* session ends with exactly one rendered sink: one that was attached before
\* keeps its single sink, one of the current session that was not gets one.
C7_ReattachedExactlyOnce ==
  [][\A k \in Rooms :
       ReconnectedEvt(k)
         => \A h \in sub[k] :
              (attached[h] # NoSink \/ roomRef = k)
                => (attached'[h] # NoSink /\ dom'[h] = 1)]_vars

\* a session whose Reconnected handler has just run (the status is still the
\* 'connected' it set, its rehydration awaits the microphone) with a handle that
\* was subscribed through the reconnect and has its one sink
C7_Witness ==
  \E k \in Rooms, h \in Handles :
    /\ hpc = "mic" /\ hroom = k /\ roomRef = k
    /\ status = "connected"
    /\ rstate[k] = "connected"
    /\ reconnectAttempts > 0
    /\ h \in sub[k]
    /\ attached[h] # NoSink /\ dom[h] = 1

\* C8: every explicit disconnect, local (disconnect() has completed) or remote
\* (the transport's Disconnected event), leaves the status Ended, the attached
\* map empty and the media timeout cancelled.
C8_DisconnectReleasesAll ==
  [][(DisconnectDone \/ \E k \in Rooms : DisconnectedEvt(k))
       => (status' = "ended" /\ attached' = ClearedMap /\ ~timer')]_vars

\* C9: at most one rendered sink exists per TrackHandle, in the document and in
\* the map alike, and a TrackSubscribed for a handle that is already attached
\* leaves the sinks as they are.
C9_OneSinkPerHandle ==
  /\ [](\A h \in Handles :
          /\ dom[h] <= 1
          /\ (attached[h] # NoSink) <=> (dom[h] = 1))
  /\ [][\A k \in Rooms, h \in Handles :
          (TrackSubscribedAudio(k, h) /\ attached[h] # NoSink)
            => UNCHANGED << attached, dom >>]_vars

\* the same handle subscribed in two sessions, with its one sink
C9_Witness ==
  \E h \in Handles, k1 \in Rooms, k2 \in Rooms :
    /\ k1 # k2
    /\ h \in sub[k1] /\ h \in sub[k2]
    /\ attached[h] # NoSink /\ dom[h] = 1

\* C10: a sink created by a TrackSubscribed event gets the speaker-mute
\* preference that is current at that time.
C10_NewSinkGetsCurrentMute ==
  [][\A k \in Rooms, h \in Handles :
       (TrackSubscribedAudio(k, h) /\ attached[h] = NoSink)
         => attached'[h] = SinkFor(isSpeakerEnabled)]_vars

\* C11: toggleSpeaker sets the muted flag of every attached sink to the new
\* value (muted exactly when the speaker is now off) and changes nothing else:
\* the set of attached handles, the rendered elements, the session status, the
\* local microphone state and the remote producers stay as they were.
C11_ToggleSpeakerFrame ==
  [][ToggleSpeaker =>
       /\ \A h \in Handles :
            attached'[h] = IF attached[h] = NoSink THEN NoSink
                           ELSE SinkFor(isSpeakerEnabled')
       /\ UNCHANGED << dom, status, error, roomRef, isMicEnabled, isScreenSharing,
                       wasMic, wasScreen, rstate, sub, scr, timer >>]_vars

\* the speaker was turned off once while a sink was attached, in the first session
C11_Witness ==
  /\ status = "connected"
  /\ ~isSpeakerEnabled
  /\ nGestures = 1 /\ nCalls = 1 /\ nRejoins = 0
  /\ \E h \in Handles : attached[h] = "muted"

\* ---- data payloads (JSON.parse of a DataReceived payload) ----

\* A payload is modelled by what JSON.parse makes of it: json = "invalid" (parse
\* throws), "null" (parses to null, so reading a field throws) or "object", and
\* for an object the value of each envelope field as a JSON literal.
Undefined == "undefined"      \* the field is absent
EmptyString == "\"\""
Falsy == {Undefined, "null", EmptyString, "0", "false"}
Truthy(v) == v \notin Falsy

Payload(j, i, t, f, r, x, s) ==
  [json |-> j, id |-> i, type |-> t, from |-> f, role |-> r, text |-> x, ts |-> s]

\* broadcastPresenterReady(): { type: 'presenter-ready', ts: Date.now() }
ReadySignal ==
  Payload("object", Undefined, "presenter-ready", Undefined, Undefined, Undefined, "1")

\* what else a viewer may be sent: a chat message, a system message, bytes that
\* are not JSON, the JSON text null
ChatSample == Payload("object", "m1", "chat", "presenter-1", "presenter", "hello", "1")
SystemSample == Payload("object", "m2", "system", "system", "viewer", "joined", "1")
Garbage == Payload("invalid", Undefined, Undefined, Undefined, Undefined, Undefined, Undefined)
JsonNull == Payload("null", Undefined, Undefined, Undefined, Undefined, Undefined, Undefined)
ViewerInbox == {ReadySignal, ChatSample, SystemSample, Garbage, JsonNull}

\* ---- usePresenterSignal, viewer side (part_000 68-103) ----

\* ViewerPage: inLobby / inActiveMeeting
inLobby == isConnected /\ ~presenterReady
inActiveMeeting == isConnected /\ presenterReady

\* a listener that does not look at message.type
HandleDataAnyType(p, ready) == IF p.json = "object" THEN TRUE ELSE ready

\* handleData: presenterReady after the listener has seen payload p
HandleData(p, ready) ==
  IF p.json = "object" /\ p.type = "presenter-ready" THEN TRUE ELSE ready

\* the [isConnected] effect has not yet run for the rendered isConnected
EffectPending == effConnected # isConnected

\* DataReceived on the room the listener is registered on (the hook's `room`)
SignalDataReceived(k, p) ==
  /\ role = "viewer"
  /\ ~EffectPending
  /\ roomRef = k
  /\ rstate[k] = "connected"
  /\ presenterReady' = HandleData(p, presenterReady)
  /\ readyDelivered' = (readyDelivered \/ (p.json = "object" /\ p.type = "presenter-ready"))
  /\ UNCHANGED << effConnected, pageVars, outsideViewer >>

\* the "Reset when disconnected" effect, run after the render in which
\* isConnected changed
ResetEffect ==
  /\ EffectPending
  /\ effConnected' = isConnected
  /\ presenterReady' = IF ~isConnected THEN FALSE ELSE presenterReady
  /\ readyDelivered' = IF ~isConnected THEN FALSE ELSE readyDelivered
  /\ UNCHANGED << pageVars, outsideViewer >>

\* a step of useLiveKitRoom, once the effects of the previous render have run
RoomStep == ~EffectPending /\ Next

InitViewer == Init /\ role = "viewer"

NextViewer ==
  \/ RoomStep
  \/ ResetEffect
  \/ \E k \in Rooms, p \in ViewerInbox : SignalDataReceived(k, p)

SpecViewer == InitViewer /\ [][NextViewer]_vars

\* C12: a viewer's presenterReady turns true only in a step that delivers a
\* presenter-ready payload to its listener; chat and system messages, payloads
\* that do not parse, track events and connection events never do it, so a
\* viewer that is never sent the signal stays in the lobby while connected.
C12_NoSpuriousReady ==
  /\ [](~readyDelivered => ~presenterReady /\ ~inActiveMeeting)
  /\ [][(~presenterReady /\ presenterReady')
          => \E k \in Rooms, p \in ViewerInbox : SignalDataReceived(k, p)]_vars

\* a viewer in the lobby with media flowing, after other payloads were delivered
C12_Witness ==
  /\ role = "viewer" /\ inLobby /\ status = "live" /\ ~readyDelivered
  /\ \E h \in Handles : attached[h] # NoSink

\* C13: when the viewer's session regains transport connectivity (Reconnected
\* after Reconnecting), presenterReady has been reset to false, so that only a
\* presenter-ready signal delivered after the reconnect puts the viewer back
\* into the active meeting.
C13_ResetOnReconnect ==
  [][\A k \in Rooms :
       (role = "viewer" /\ roomRef = k /\ rstate[k] = "reconnecting" /\ ReconnectedEvt(k))
         => (~presenterReady' /\ ~inActiveMeeting')]_vars

\* ---- usePresenterSignal, presenter side, on a clock (part_000 28-65) ----
\* The presenter page and one viewer page; of useLiveKitRoom each page keeps
\* only what it hands to usePresenterSignal, the isConnected prop.

SettleDelayMs == 300
BroadcastEveryMs == 5000

Min(S) == CHOOSE m \in S : \A x \in S : m <= x

\* the timers and deliveries that are due, by their time
Due == ({initialDelay, intervalAt} \cup inflight) \ {NoTimer}

NextTick == ((now \div TickMs) + 1) * TickMs

\* time passes up to the next tick or deadline, once everything due has run
Advance ==
  /\ now \notin Due
  /\ now < MaxTime
  /\ now' = Min({NextTick} \cup {d \in Due : d > now})
  /\ UNCHANGED << pConnected, pConnectedAt, initialDelay, intervalAt, inflight,
                  vConnected, vConnectedAt, presenterReady, outsideTimed >>

\* the broadcast effect runs: isConnected turned true with a room
PresenterConnected ==
  /\ ~pConnected
  /\ pConnected' = TRUE
  /\ pConnectedAt' = now
  /\ initialDelay' = now + SettleDelayMs
  /\ intervalAt' = now + BroadcastEveryMs
  /\ UNCHANGED << now, inflight, vConnected, vConnectedAt, presenterReady, outsideTimed >>

\* the effect's cleanup: isConnected turned false
PresenterDisconnected ==
  /\ pConnected
  /\ pConnected' = FALSE
  /\ pConnectedAt' = NoTimer
  /\ initialDelay' = NoTimer
  /\ intervalAt' = NoTimer
  /\ UNCHANGED << now, inflight, vConnected, vConnectedAt, presenterReady, outsideTimed >>

\* broadcastPresenterReady(): publishData, delivered LatencyMs later
Broadcast == inflight' = inflight \cup {now + LatencyMs}

InitialDelayFires ==
  /\ initialDelay = now
  /\ Broadcast
  /\ initialDelay' = NoTimer
  /\ UNCHANGED << now, pConnected, pConnectedAt, intervalAt, vConnected, vConnectedAt,
                  presenterReady, outsideTimed >>

IntervalFires ==
  /\ intervalAt = now
  /\ Broadcast
  /\ intervalAt' = now + BroadcastEveryMs
  /\ UNCHANGED << now, pConnected, pConnectedAt, initialDelay, vConnected, vConnectedAt,
                  presenterReady, outsideTimed >>

ViewerConnected ==
  /\ ~vConnected
  /\ vConnected' = TRUE
  /\ vConnectedAt' = now
  /\ UNCHANGED << now, pConnected, pConnectedAt, initialDelay, intervalAt, inflight,
                  presenterReady, outsideTimed >>

\* the viewer's isConnected turns false; its reset effect runs
ViewerDisconnected ==
  /\ vConnected
  /\ vConnected' = FALSE
  /\ vConnectedAt' = NoTimer
  /\ presenterReady' = FALSE
  /\ UNCHANGED << now, pConnected, pConnectedAt, initialDelay, intervalAt, inflight,
                  outsideTimed >>

\* a published payload reaches the room; a connected viewer's listener runs
Deliver ==
  /\ now \in inflight
  /\ inflight' = inflight \ {now}
  /\ presenterReady' = IF vConnected THEN HandleData(ReadySignal, presenterReady)
                       ELSE presenterReady
  /\ UNCHANGED << now, pConnected, pConnectedAt, initialDelay, intervalAt,
                  vConnected, vConnectedAt, outsideTimed >>

InitTimed == Init /\ role = "viewer"

NextTimed ==
  \/ Advance
  \/ PresenterConnected
  \/ PresenterDisconnected
  \/ InitialDelayFires
  \/ IntervalFires
  \/ ViewerConnected
  \/ ViewerDisconnected
  \/ Deliver

SpecTimed == InitTimed /\ [][NextTimed]_vars

\* C14: with the presenter connected since t = 0, its broadcasts up to 5300 ms
\* happen at 300 ms and at 5300 ms, and a viewer connected since t = 1000 ms is
\* in the lobby up to 5300 ms and in the active meeting after 5301 ms.
C14_ReadyScenario ==
  /\ [][(pConnectedAt = 0 /\ (InitialDelayFires \/ IntervalFires))
          => now \in {SettleDelayMs, SettleDelayMs + BroadcastEveryMs}]_vars
  /\ []((pConnectedAt = 0 /\ vConnectedAt = 1000 /\ now <= SettleDelayMs + BroadcastEveryMs)
          => (vConnected /\ ~presenterReady))
  /\ []((pConnectedAt = 0 /\ vConnectedAt = 1000
           /\ now > SettleDelayMs + BroadcastEveryMs + LatencyMs)
          => (vConnected /\ presenterReady))

\* ---- useLiveKitChat (part_000 134-268) ----

\* the envelope fields the wire format requires
EnvelopeFields == {"id", "type", "from", "role", "text", "ts"}

\* a well-formed chat message of a remote participant
RemoteMessage(i) == Payload("object", i, "chat", "viewer-2", "viewer", "hi", "1")

RemoteIds == {"m1", "m2"}

\* what may arrive: well-formed messages, the same with one field missing or
\* empty, a presenter-ready signal, bytes that are not JSON, the JSON text null
ChatInbox ==
  {RemoteMessage(i) : i \in RemoteIds}
    \cup {[RemoteMessage("m1") EXCEPT ![f] = v] :
            f \in EnvelopeFields, v \in {Undefined, EmptyString, "0"}}
    \cup {ReadySignal, Garbage, JsonNull}

\* generateId(): `${Date.now()}-${random}`, taken never to repeat
LocalIds == << "l1", "l2", "l3" >>
generateId == LocalIds[nSent + 1]

\* the ChatMessage objects sendMessage(text) and sendSystemMessage(text) build
ChatMessage(x) == Payload("object", generateId, "chat", "viewer-1", "viewer", x, "1")
SystemMessage(x) == Payload("object", generateId, "system", "system", "viewer", x, "1")

\* "Validate message structure": the fields handleDataReceived tests
Valid(p) == Truthy(p.id) /\ Truthy(p.type) /\ Truthy(p.text) /\ Truthy(p.ts)

\* a receiver without the duplicate test
SeenNever(log, i) == FALSE

\* prev.some(m => m.id === message.id)
Seen(log, i) == \E n \in DOMAIN log : log[n].id = i

\* the log after handleDataReceived(payload)
Received(log, p) ==
  IF p.json # "object" THEN log
  ELSE IF ~Valid(p) THEN log
  ELSE IF Seen(log, p.id) THEN log
  ELSE Append(log, p)

\* a sendMessage without the local echo
LocalEchoNone(log, m) == log

\* setMessages(prev => [...prev, message])
LocalEcho(log, m) == Append(log, m)

\* the page's room state is set (connect()) or cleared (disconnect())
RoomSet ==
  /\ ~chatRoom
  /\ chatRoom' = TRUE
  /\ UNCHANGED << messages, nSent, outbox, lastPayload, outsideChat >>

RoomCleared ==
  /\ chatRoom
  /\ chatRoom' = FALSE
  /\ UNCHANGED << messages, nSent, outbox, lastPayload, outsideChat >>

\* publish m and echo it locally; without a room, nothing
Send(m) ==
  /\ nSent < MaxSends
  /\ Len(messages) < MaxLog
  /\ IF chatRoom
       THEN /\ outbox' = outbox \cup {m}
            /\ messages' = LocalEcho(messages, m)
            /\ nSent' = nSent + 1
       ELSE UNCHANGED << outbox, messages, nSent >>
  /\ UNCHANGED << chatRoom, lastPayload, outsideChat >>

SendMessage(x) == Send(ChatMessage(x))

SendSystemMessage(x) == Send(SystemMessage(x))

\* the transport delivers a published payload to the others, or loses it; the
\* sender is told neither
TransportTakes(m) ==
  /\ m \in outbox
  /\ outbox' = outbox \ {m}
  /\ UNCHANGED << messages, chatRoom, nSent, lastPayload, outsideChat >>

\* DataReceived with payload p, on the room the listener is registered on
ChatDataReceived(p) ==
  /\ chatRoom
  /\ Len(Received(messages, p)) <= MaxLog
  /\ messages' = Received(messages, p)
  /\ lastPayload' = p
  /\ UNCHANGED << chatRoom, nSent, outbox, outsideChat >>

\* clearMessages(), which the pages call when the status is 'ended'
ClearMessages ==
  /\ messages' = << >>
  /\ UNCHANGED << chatRoom, nSent, outbox, lastPayload, outsideChat >>

InitChat == Init /\ role = "viewer"

NextChat ==
  \/ RoomSet
  \/ RoomCleared
  \/ \E x \in {"hi", EmptyString} : SendMessage(x)
  \/ SendSystemMessage("joined")
  \/ \E m \in outbox : TransportTakes(m)
  \/ \E p \in ChatInbox : ChatDataReceived(p)
  \/ ClearMessages

SpecChat == InitChat /\ [][NextChat]_vars

\* C15: the chat log never holds two messages with the same id, and a delivery
\* whose id is already in the log leaves the log as it is.
C15_NoDuplicateIds ==
  /\ [](\A m, n \in DOMAIN messages : m # n => messages[m].id # messages[n].id)
  /\ [][\A p \in ChatInbox :
          (p.json = "object" /\ Seen(messages, p.id) /\ ChatDataReceived(p))
            => messages' = messages]_vars

\* a second payload with the id of a logged message, and other content, was
\* delivered last
C15_Witness ==
  /\ lastPayload.json = "object"
  /\ \E n \in DOMAIN messages :
       messages[n].id = lastPayload.id /\ messages[n] # lastPayload

\* every envelope field the wire format requires is present and non-empty
AllRequired(p) == p.json = "object" /\ \A f \in EnvelopeFields : Truthy(p[f])

\* C16: a delivered payload in which a required envelope field (id, type, from,
\* role, text, ts) is missing or empty is dropped: the log stays as it is.
C16_MalformedDropped ==
  [][\A p \in ChatInbox :
       (~AllRequired(p) /\ ChatDataReceived(p)) => messages' = messages]_vars

\* C17: with a room present, sendMessage appends the message to the sender's
\* own log in the very step that publishes it, and nothing the transport then
\* does with the payload (delivering it, losing it) touches the log.
C17_LocalEchoAtSend ==
  /\ [][\A x \in {"hi", EmptyString} :
          (chatRoom /\ SendMessage(x))
            => (messages' = Append(messages, ChatMessage(x)) /\ ChatMessage(x) \in outbox')]_vars
  /\ [][\A m \in outbox : TransportTakes(m) => messages' = messages]_vars

\* a sent message is in the log while the transport still holds its payload
C17_Witness ==
  \E n \in DOMAIN messages :
    messages[n].type = "chat" /\ messages[n].from = "viewer-1" /\ messages[n] \in outbox

\* ---- ParticipantList (src/src/components/ParticipantList.tsx) ----

GRACE_PERIOD_MS == 8000

\* inferRole: identity.toLowerCase().includes('presenter')
inferRole(id) == IF id \in {"presenter-1"} THEN "presenter" ELSE "viewer"

\* the entry's name: localParticipant.name || 'You', p.name || p.identity
NameOf(id) ==
  IF id = LocalIdentity THEN "You"
  ELSE IF id = "alice" THEN "Alice"
  ELSE IF id = "bob" THEN "Bob"
  ELSE id

\* String.prototype.localeCompare on the names in use: their collation order
NameOrder == << "Alice", "Bob", "presenter-1", "You" >>
NameRank(n) == CHOOSE i \in DOMAIN NameOrder : NameOrder[i] = n
localeCompare(a, b) ==
  IF NameRank(a) < NameRank(b) THEN -1 ELSE IF NameRank(a) > NameRank(b) THEN 1 ELSE 0

Entry(id, st, loc) ==
  [identity |-> id, name |-> NameOf(id), role |-> inferRole(id), status |-> st, isLocal |-> loc]

\* the liveEntries array buildRoster() makes of the props
LiveEntries(loc, ps) ==
  (IF loc THEN << Entry(LocalIdentity, "connected", TRUE) >> ELSE << >>)
    \o [i \in DOMAIN ps |-> Entry(ps[i], "connected", FALSE)]

Identities(r) == {r[i].identity : i \in DOMAIN r}

\* a comparator without the presenter rule
CmpNoRole(a, b) ==
  IF a.isLocal /\ ~b.isLocal THEN -1
  ELSE IF ~a.isLocal /\ b.isLocal THEN 1
  ELSE localeCompare(a.name, b.name)

\* the comparator handed to merged.sort
Cmp(a, b) ==
  IF a.isLocal /\ ~b.isLocal THEN -1
  ELSE IF ~a.isLocal /\ b.isLocal THEN 1
  ELSE IF a.role = "presenter" /\ b.role # "presenter" THEN -1
  ELSE IF a.role # "presenter" /\ b.role = "presenter" THEN 1
  ELSE localeCompare(a.name, b.name)

\* Array.prototype.sort (stable): e goes behind the last entry not after it
InsertSorted(r, e) ==
  LET k == Cardinality({i \in DOMAIN r : Cmp(r[i], e) <= 0})
  IN  SubSeq(r, 1, k) \o << e >> \o SubSeq(r, k + 1, Len(r))

RECURSIVE SortRoster(_)
SortRoster(r) ==
  IF r = << >> THEN << >>
  ELSE InsertSorted(SortRoster(SubSeq(r, 1, Len(r) - 1)), r[Len(r)])

IsGhost(e, live) == e.status = "reconnecting" /\ e.identity \notin Identities(live)

\* the updater of buildRoster(): live entries, then the grace-period entries of
\* prev that are not live, sorted
Rebuilt(prev, live) ==
  SortRoster(live \o SelectSeq(prev, LAMBDA e : IsGhost(e, live)))

\* the updater of the departure branch: mark the departed entries
MarkDeparted(r, ids) ==
  [i \in DOMAIN r |->
     IF r[i].identity \in ids THEN [r[i] EXCEPT !.status = "reconnecting"] ELSE r[i]]

\* the sequence without the first of its entries equal to v
RemoveOne(q, v) ==
  IF \E i \in DOMAIN q : q[i] = v
    THEN LET k == Min({i \in DOMAIN q : q[i] = v})
         IN  SubSeq(q, 1, k - 1) \o SubSeq(q, k + 1, Len(q))
    ELSE q

\* clearTimeout(h) for every handle h the map holds for an identity of ids
ClearTimeouts(map, pend, ids) ==
  [id \in AllIdentities |->
     IF id \in ids /\ map[id] # NoTimer THEN RemoveOne(pend[id], map[id]) ELSE pend[id]]

\* an effect that leaves the timer of a returning identity alone
CancelOnReturnNever(map, pend, ids) == [map |-> map, pend |-> pend]

\* "Cancel grace timer if they came back": for each arrival with a map entry,
\* clearTimeout(timer) and graceTimersRef.current.delete(id)
CancelOnReturn(map, pend, ids) ==
  [map |-> [id \in AllIdentities |-> IF id \in ids THEN NoTimer ELSE map[id]],
   pend |-> ClearTimeouts(map, pend, ids)]

\* the [buildRoster] effect, run for the props (loc, ps)
RosterEffect(loc, ps) ==
  LET live == LiveEntries(loc, ps)
      currentIds == Identities(live)
      arrivals == currentIds \ known
      c == CancelOnReturn(graceTimers, pending, arrivals)
      departures == {id \in known : id \notin currentIds /\ c.map[id] = NoTimer}
  IN  /\ roster' = MarkDeparted(Rebuilt(roster, live), departures)
      /\ graceTimers' = [id \in AllIdentities |->
                           IF id \in departures THEN rosterNow + GRACE_PERIOD_MS
                           ELSE c.map[id]]
      /\ pending' = [id \in AllIdentities |->
                       IF id \in departures
                         THEN Append(c.pend[id], rosterNow + GRACE_PERIOD_MS)
                         ELSE c.pend[id]]
      /\ known' = currentIds

\* a remote participant joins: the participants prop changes, the effect runs
RemoteJoins(id) ==
  /\ id \notin {participants[i] : i \in DOMAIN participants}
  /\ participants' = Append(participants, id)
  /\ RosterEffect(localPresent, participants')
  /\ UNCHANGED << localPresent, rosterNow, outsideRoster >>

\* a remote participant leaves
RemoteLeaves(id) ==
  /\ id \in {participants[i] : i \in DOMAIN participants}
  /\ participants' = SelectSeq(participants, LAMBDA x : x # id)
  /\ RosterEffect(localPresent, participants')
  /\ UNCHANGED << localPresent, rosterNow, outsideRoster >>

\* the localParticipant prop is set (connected) or cleared (disconnected)
LocalChanges ==
  /\ localPresent' = ~localPresent
  /\ RosterEffect(localPresent', participants)
  /\ UNCHANGED << participants, rosterNow, outsideRoster >>

\* the hook hands over a new participants array with the same members
Refresh ==
  /\ RosterEffect(localPresent, participants)
  /\ UNCHANGED << localPresent, participants, rosterNow, outsideRoster >>

\* the grace timer of id fires
GraceTimerFires(id) ==
  /\ \E i \in DOMAIN pending[id] : pending[id][i] = rosterNow
  /\ roster' = SelectSeq(roster, LAMBDA e : e.identity # id)
  /\ graceTimers' = [graceTimers EXCEPT ![id] = NoTimer]
  /\ pending' = [pending EXCEPT ![id] = RemoveOne(pending[id], rosterNow)]
  /\ UNCHANGED << localPresent, participants, known, rosterNow, outsideRoster >>

RosterDue == UNION {{pending[id][i] : i \in DOMAIN pending[id]} : id \in AllIdentities}

\* time passes up to the next tick or deadline, once every due timer has fired
RosterAdvance ==
  /\ rosterNow \notin RosterDue
  /\ rosterNow < MaxRosterTime
  /\ rosterNow' = Min({((rosterNow \div RosterTickMs) + 1) * RosterTickMs}
                        \cup {d \in RosterDue : d > rosterNow})
  /\ UNCHANGED << localPresent, participants, roster, known, graceTimers, pending, outsideRoster >>

InitRoster == Init /\ role = "viewer"

NextRoster ==
  \/ \E id \in RemoteIdentities : RemoteJoins(id)
  \/ \E id \in RemoteIdentities : RemoteLeaves(id)
  \/ LocalChanges
  \/ Refresh
  \/ \E id \in AllIdentities : GraceTimerFires(id)
  \/ RosterAdvance

SpecRoster == InitRoster /\ [][NextRoster]_vars

\* the status of id's roster entry, or "absent"
RosterStatus(r, id) ==
  IF id \in Identities(r) THEN (CHOOSE e \in {r[i] : i \in DOMAIN r} : e.identity = id).status
  ELSE "absent"

\* C18: when a remote identity that is Live in the roster disappears from live
\* membership, its entry stays in the roster with Grace (reconnecting) status
\* and a removal timer of 8 seconds is started; and an entry that is not live
\* leaves the roster only in the step in which its grace timer fires.
C18_GraceOnDeparture ==
  /\ [][\A id \in RemoteIdentities :
          (RosterStatus(roster, id) = "connected" /\ RemoteLeaves(id))
            => /\ RosterStatus(roster', id) = "reconnecting"
               /\ graceTimers'[id] = rosterNow + GRACE_PERIOD_MS]_vars
  /\ [][\A id \in AllIdentities :
          (RosterStatus(roster, id) # "absent" /\ RosterStatus(roster', id) = "absent")
            => GraceTimerFires(id)]_vars

\* C19: from its departure until its grace timer fires an identity is never
\* absent from the roster, and when it reappears in live membership within
\* that time its timer is cancelled and its entry is Live again.
C19_ReappearKeepsEntry ==
  /\ [](\A id \in RemoteIdentities :
          graceTimers[id] # NoTimer => RosterStatus(roster, id) # "absent")
  /\ [][\A id \in RemoteIdentities :
          (graceTimers[id] # NoTimer /\ RemoteJoins(id))
            => (graceTimers'[id] = NoTimer /\ RosterStatus(roster', id) = "connected")]_vars

\* name, role and place of the entries i < j of a roster, as the order demands
InOrder(r) ==
  \A i, j \in DOMAIN r :
    i < j => /\ r[j].isLocal => r[i].isLocal
             /\ (r[i].isLocal = r[j].isLocal /\ r[j].role = "presenter")
                  => r[i].role = "presenter"
             /\ (r[i].isLocal = r[j].isLocal /\ r[i].role = r[j].role)
                  => NameRank(r[i].name) <= NameRank(r[j].name)

RECURSIVE Orderings(_)
\* the sequences without repetition over the members of a set
Orderings(S) ==
  IF S = {} THEN {<< >>}
  ELSE UNION {{Append(q, x) : q \in Orderings(S \ {x})} : x \in S}

\* rosters of Grace entries that a rebuild may find in prev
GhostRosters ==
  UNION {{[i \in DOMAIN q |-> Entry(q[i], "reconnecting", FALSE)] : q \in Orderings(G)} :
           G \in SUBSET RemoteIdentities}

C23_TokenFailureIsTerminal ==
  [][\A spk \in BOOLEAN :
       TokenFail(spk)
         => /\ status' = "failed"
            /\ error' = "connect"
            /\ UNCHANGED << nRooms, roomRef, rstate, cpc >>]_vars

\* the first attempt failed at the token: no room exists
C23_Witness == status = "failed" /\ error = "connect" /\ nRooms = 0 /\ nCalls = 1

C28_ScreenTrackDrivesStatus ==
  [][(/\ roomRef' = roomRef
      /\ RoomIsConnected(roomRef, rstate)
      /\ RoomIsConnected(roomRef', rstate')
      /\ scr'[roomRef] # scr[roomRef])
       => status' = (IF scr'[roomRef] THEN "live" ELSE "waiting")]_vars

\* a viewer whose connect() is complete sees the producer on the open connection
C28_Witness ==
  /\ RoomIsConnected(roomRef, rstate) /\ scr[roomRef]
  /\ status = "live" /\ cpc[roomRef] = "done" /\ role = "viewer"

\* C29: a track or participant event that makes the status Live is processed
\* in status Waiting, Connected or Publishing; processed in status
\* Reconnecting, Connecting, Ended, Failed, Error or Idle it never does.
C29_LiveOnlyFromOpenStates ==
  [][\A k \in Rooms :
       ((TrackSubscribedScreen(k) \/ ScreenTrackGone(k) \/ PublicationEvt(k))
          /\ status' = "live" /\ status # "live")
         => status \in {"waiting", "connected", "publishing"}]_vars

\* C30: in every reachable state with status Failed or Error, for either role,
\* the page offers a retry (connect) or a rejoin action to the user.
C30_RecoveryOffered ==
  status \in {"failed", "error"} => (CanConnect \/ CanRejoin)

\* ---- reconnectPolicy (useLiveKitRoom.ts 288-298) ----

\* Math.pow(b, e) for a count e
RECURSIVE pow(_, _)
pow(b, e) == IF e = 0 THEN 1 ELSE b * pow(b, e - 1)

\* Math.min(a, b)
min(a, b) == IF a <= b THEN a ELSE b

\* a policy whose delay grows by 500 ms a retry
nextRetryDelayInMsLinear(n) == min(500 * (n + 1), 8000)

\* nextRetryDelayInMs(context), n = context.retryCount: the delay is returned
\* on every path, null (GiveUp) on none
nextRetryDelayInMs(n) == min(500 * pow(2, n), 8000)

\* the transport asks the policy for the delay before retry retryCount
PolicyAsked ==
  /\ delay = NoDelay
  /\ delay' = nextRetryDelayInMs(retryCount)
  /\ UNCHANGED << retryCount, prevDelay, waitedMs >>
  /\ UNCHANGED outsideBackoff

\* the retry, made after the delay, fails: the transport counts it
RetryFailed ==
  /\ delay \notin {NoDelay, GiveUp}
  /\ retryCount < MaxRetryCount
  /\ retryCount' = retryCount + 1
  /\ prevDelay' = delay
  /\ waitedMs' = waitedMs + delay
  /\ delay' = NoDelay
  /\ UNCHANGED outsideBackoff

\* the retry succeeds: the episode is over, the next one counts from 0
RetrySucceeded ==
  /\ delay \notin {NoDelay, GiveUp}
  /\ retryCount' = 0
  /\ delay' = NoDelay
  /\ prevDelay' = NoDelay
  /\ waitedMs' = 0
  /\ UNCHANGED outsideBackoff

\* the policy is a function of context.retryCount alone: any count starts
InitBackoff ==
  /\ InitHooks /\ InitSide /\ InitStore
  /\ role = "viewer"
  /\ retryCount \in 0..MaxRetryCount
  /\ delay = NoDelay
  /\ prevDelay = NoDelay
  /\ waitedMs = 0

NextBackoff ==
  \/ PolicyAsked
  \/ RetryFailed
  \/ RetrySucceeded

SpecBackoff == InitBackoff /\ [][NextBackoff]_vars

\* C26: the delay the policy returns for retry n is min(500 * 2^n, 8000) ms:
\* 500 ms for n = 0, never above 8000 ms, never below the delay of the retry
\* before, and never the give-up answer.
C26_BackoffDelay ==
  delay # NoDelay =>
    /\ delay # GiveUp
    /\ delay = (IF 500 * (2 ^ retryCount) < 8000 THEN 500 * (2 ^ retryCount) ELSE 8000)
    /\ delay <= 8000
    /\ (retryCount = 0 => delay = 500)
    /\ (prevDelay # NoDelay => prevDelay <= delay)

\* an episode that began at retry 0 is at a capped delay after a capped delay
C26_Witness ==
  /\ retryCount = 5 /\ delay = 8000 /\ prevDelay = 8000
  /\ waitedMs = 500 + 1000 + 2000 + 4000 + 8000

\* C27: the delay at attempt 0 is 500 ms and the delay at attempt 3 is the cap,
\* 8000 ms.
C27_BackoffScenario ==
  delay # NoDelay =>
    /\ (retryCount = 0 => delay = 500)
    /\ (retryCount = 3 => delay = 8000)

\* ---- the pages' system-message effects (PresenterPage.tsx 78-104, ----
\* ---- ViewerPage.tsx 73-87)                                        ----
\* The two effects hand their texts to sendSystemMessage of useLiveKitChat, which
\* publishes them when its room is set; sysOut records what was published.  What
\* the chat hook does with its log is in SpecChat.

\* the join effect's isConnectedState
isConnectedState(st) == st \in {"connected", "publishing", "waiting", "live"}

\* sendSystemMessage(text) of the render with room rm: published, or dropped
\* with a log line when there is no room
Published(out, rm, kind) == IF rm # NoRoom THEN Append(out, kind) ELSE out

\* the share effect: the text it sends for a change of isScreenSharing
ShareText(sharing) == IF sharing THEN "start" ELSE "stop"

\* the share effect's test: isScreenSharing changed and the status is 'live'
ShareEffectSends(prev, sharing, st) == prev # sharing /\ st = "live"

\* the join effect's dependencies changed: status, or sendSystemMessage, which
\* is rebuilt when room changes
JoinDepsChanged == effStatus # status \/ effRoom # roomRef

\* a render whose effects have not run yet
PageEffectsPending == JoinDepsChanged \/ prevIsScreenSharing # isScreenSharing

\* the effects of one render, in the order of their declaration: the share
\* effect (78-88), then the cleanup of the join effect's last run and the join
\* effect itself (90-104) when its dependencies changed
PageEffects ==
  /\ PageEffectsPending
  /\ prevIsScreenSharing' = isScreenSharing
  /\ effStatus' = status
  /\ effRoom' = roomRef
  /\ LET out1 == IF ShareEffectSends(prevIsScreenSharing, isScreenSharing, status)
                   THEN Published(sysOut, roomRef, ShareText(isScreenSharing))
                   ELSE sysOut
         starts == JoinDepsChanged /\ isConnectedState(status) /\ ~hasJoined
         ended == JoinDepsChanged /\ ~starts /\ status = "ended"
     IN
     /\ hasJoined' = IF starts THEN TRUE ELSE IF ended THEN FALSE ELSE hasJoined
     /\ joinTimeout' = IF starts THEN TRUE ELSE IF JoinDepsChanged THEN FALSE ELSE joinTimeout
     /\ sysOut' = IF ended THEN << >> ELSE out1
  /\ UNCHANGED << pageVars, outsideEffects >>

\* the join effect's timeout fires, 500 ms after a run that no later run
\* cleaned up: sendSystemMessage(`${localIdentity} joined the room`)
JoinTimeoutFires ==
  /\ joinTimeout
  /\ ~PageEffectsPending
  /\ joinTimeout' = FALSE
  /\ sysOut' = Published(sysOut, effRoom, "join")
  /\ UNCHANGED << hasJoined, prevIsScreenSharing, effStatus, effRoom >>
  /\ UNCHANGED << pageVars, outsideEffects >>

\* a step of useLiveKitRoom, once the effects of the previous render have run
PageRoomStep == ~PageEffectsPending /\ Next

InitPage == Init /\ role = "presenter"

NextPage ==
  \/ PageRoomStep
  \/ PageEffects
  \/ JoinTimeoutFires

SpecPage == InitPage /\ [][NextPage]_vars

\* the join messages among the system messages published
JoinCount(out) == Cardinality({i \in DOMAIN out : out[i] = "join"})

\* C21: in each logical join, from the first connected status to status Ended,
\* one join system message is sent: never more than one, whatever the number of
\* reconnects, and the one that is pending is not dropped when the status
\* changes to another connected status.
C21_OneJoinMessage ==
  /\ [](JoinCount(sysOut) <= 1)
  /\ [][(PageEffects /\ joinTimeout /\ isConnectedState(status)) => joinTimeout']_vars

\* C22: each change of isScreenSharing made by the presenter during a session,
\* to sharing and to not sharing, is followed by the effects sending the
\* share-start or share-stop system message for it.
C22_ShareMessages ==
  [][(PageEffects /\ isConnected /\ roomRef # NoRoom
        /\ prevIsScreenSharing # isScreenSharing)
       => sysOut' = Append(sysOut, ShareText(isScreenSharing))]_vars

\* what disconnect() leaves when it returns: no room, status Ended, the media
\* flags and the desired-media refs false
Disconnected ==
  /\ roomRef = NoRoom /\ status = "ended"
  /\ ~isMicEnabled /\ ~isScreenSharing /\ ~wasMic /\ ~wasScreen

\* C37: once disconnect() has returned, the status is Ended and isMicEnabled,
\* isScreenSharing, desiredMic and desiredScreenShare are false, and every step
\* that is not a call of connect() or rejoin() keeps them so.
C37_DisconnectIsFinal ==
  /\ [][DisconnectDone => Disconnected']_vars
  /\ [][(Disconnected /\ ~(Connect \/ Rejoin \/ RejoinConnect)) => Disconnected']_vars

\* C39: when the presenter's own screen-share track is unpublished by the
\* transport or the browser (LocalTrackUnpublished, not stopScreenShare()),
\* isScreenSharing and desiredScreenShare become false, so that they are true
\* only while the track is published.
C39_UnpublishClearsSharing ==
  [][\A k \in Rooms :
       (ScreenTrackGone(k) /\ role = "presenter" /\ k = roomRef /\ isScreenSharing)
         => (~isScreenSharing' /\ ~wasScreen')]_vars

\* ---- connect(): the new room's listeners and its open call (301-423) ----

\* a connect() that opens the room first and registers its listeners after
ConnectBodyOpenFirst ==
  << "connect",
     "ConnectionStateChanged", "Reconnected", "Disconnected",
     "ConnectionQualityChanged", "ParticipantConnected", "ParticipantDisconnected",
     "TrackSubscribed", "TrackUnsubscribed", "TrackPublished", "TrackUnpublished",
     "LocalTrackPublished", "LocalTrackUnpublished", "TrackMuted", "TrackUnmuted",
     "MediaDevicesError" >>

\* the statements of connect() on newRoom, in source order: newRoom.on(event, ...)
\* by its event, then newRoom.connect(livekitUrl, token)
ConnectBody ==
  << "ConnectionStateChanged", "Reconnected", "Disconnected",
     "ConnectionQualityChanged", "ParticipantConnected", "ParticipantDisconnected",
     "TrackSubscribed", "TrackUnsubscribed", "TrackPublished", "TrackUnpublished",
     "LocalTrackPublished", "LocalTrackUnpublished", "TrackMuted", "TrackUnmuted",
     "MediaDevicesError",
     "connect" >>

\* the events connect() listens to
RoomEvents == {ConnectBody[i] : i \in DOMAIN ConnectBody} \ {"connect"}

\* the next statement is newRoom.on(event, handler)
RegisterHandler ==
  /\ stmt \in DOMAIN ConnectBody
  /\ ConnectBody[stmt] # "connect"
  /\ handlers' = handlers \cup {ConnectBody[stmt]}
  /\ stmt' = stmt + 1
  /\ UNCHANGED << opened, handled, missed, nEmitted >>
  /\ UNCHANGED outsideRegister

\* the next statement is newRoom.connect(...): the transport opens
OpenCall ==
  /\ stmt \in DOMAIN ConnectBody
  /\ ConnectBody[stmt] = "connect"
  /\ opened' = TRUE
  /\ stmt' = stmt + 1
  /\ UNCHANGED << handlers, handled, missed, nEmitted >>
  /\ UNCHANGED outsideRegister

\* the transport, once opened, emits e: the room's emitter calls the listeners
\* registered for e at that moment, and nobody else hears of it
Emit(e) ==
  /\ opened
  /\ nEmitted < MaxEmits
  /\ nEmitted' = nEmitted + 1
  /\ handled' = IF e \in handlers THEN handled \cup {e} ELSE handled
  /\ missed' = IF e \in handlers THEN missed ELSE missed \cup {e}
  /\ UNCHANGED << stmt, handlers, opened >>
  /\ UNCHANGED outsideRegister

InitRegister == Init /\ role = "viewer"

NextRegister ==
  \/ RegisterHandler
  \/ OpenCall
  \/ \E e \in RoomEvents : Emit(e)

SpecRegister == InitRegister /\ [][NextRegister]_vars

\* C33: when connect() issues the transport's connect call, the listener of
\* every event it handles is registered, and no event the transport emits from
\* the open on is emitted without its listener.
C33_HandlersBeforeOpen ==
  /\ opened => handlers = RoomEvents
  /\ missed = {}

\* the opened room has emitted events and each one reached its listener
C33_Witness == opened /\ nEmitted = 2 /\ Cardinality(handled) = 2 /\ missed = {}

\* ---- muteParticipant (useLiveKitRoom.ts 577-590) ----

\* String.prototype.startsWith
startsWith(str, prefix) ==
  Len(prefix) <= Len(str) /\ SubSeq(str, 1, Len(prefix)) = prefix

\* the participant whose track the sink with id t plays
OwnerOf(t) == CHOOSE id \in MuteIdentities : \E sid \in TrackSids : t = TrackIdOf(id, sid)

\* the forEach of muteParticipant: element.muted = muted on the sinks it selects
MutedMap(att, id, muted) ==
  [t \in DOMAIN att |->
     IF startsWith(t, id) /\ att[t] # NoSink
       THEN (IF muted THEN "muted" ELSE "on")
       ELSE att[t]]

\* roomRef.current is set by connect() and cleared by disconnect()
MuteRoomSet ==
  /\ hasRoom' = ~hasRoom
  /\ UNCHANGED audio
  /\ UNCHANGED outsideMute

\* attachAudioTrack() for a track of participant id, unless already attached
MuteAttach(id, sid, spk) ==
  /\ hasRoom
  /\ audio[TrackIdOf(id, sid)] = NoSink
  /\ audio' = [audio EXCEPT ![TrackIdOf(id, sid)] = SinkFor(spk)]
  /\ UNCHANGED hasRoom
  /\ UNCHANGED outsideMute

\* detachAudioTrack()
MuteDetach(id, sid) ==
  /\ audio[TrackIdOf(id, sid)] # NoSink
  /\ audio' = [audio EXCEPT ![TrackIdOf(id, sid)] = NoSink]
  /\ UNCHANGED hasRoom
  /\ UNCHANGED outsideMute

\* muteParticipant(id, muted): nothing without a room
MuteParticipant(id, muted) ==
  /\ audio' = IF hasRoom THEN MutedMap(audio, id, muted) ELSE audio
  /\ UNCHANGED hasRoom
  /\ UNCHANGED outsideMute

InitMute == Init /\ role = "presenter"

NextMute ==
  \/ MuteRoomSet
  \/ \E id \in MuteIdentities, sid \in TrackSids, spk \in BOOLEAN : MuteAttach(id, sid, spk)
  \/ \E id \in MuteIdentities, sid \in TrackSids : MuteDetach(id, sid)
  \/ \E id \in MuteIdentities, muted \in BOOLEAN : MuteParticipant(id, muted)

SpecMute == InitMute /\ [][NextMute]_vars

\* C38: muteParticipant(identity, muted) leaves the sink of every track of
\* another participant as it was, also of a participant whose identity begins
\* with the given identity, and leaves the session status as it was.
C38_MuteOnlyThatParticipant ==
  [][\A id \in MuteIdentities, muted \in BOOLEAN :
       MuteParticipant(id, muted)
         => /\ \A t \in TrackIds : OwnerOf(t) # id => audio'[t] = audio[t]
            /\ status' = status]_vars

\* ---- get-config (supabase/functions/get-config/index.ts) and ----
\* ---- useLiveKitConfig.fetchConfig (useLiveKitConfig.ts 15-34) ----

\* .select('url, api_key, updated_at').limit(1).single(): the columns read
Select(row) == [url |-> row.url, api_key |-> row.api_key, updated_at |-> row.updated_at]

\* a handler that also returns the stored secret
GetConfigWithSecret(row, dbOk) ==
  IF ~dbOk THEN Response("500", "undefined", "undefined", "undefined", "undefined", "db")
  ELSE IF row = NoRow
    THEN Response("200", "false", "undefined", "undefined", "undefined", "undefined")
  ELSE Response("200", "true", row.url, row.api_key, row.updated_at, row.api_secret)

\* the handler: 500 with the error message when the query fails, configured:
\* false when there is no row, else the url, the api key and the update time
GetConfig(row, dbOk) ==
  IF ~dbOk THEN Response("500", "undefined", "undefined", "undefined", "undefined", "db")
  ELSE IF row = NoRow
    THEN Response("200", "false", "undefined", "undefined", "undefined", "undefined")
  ELSE LET data == Select(row)
       IN Response("200", "true", data.url, data.api_key, data.updated_at, "undefined")

\* fetchConfig(): setConfig(data) unless functions.invoke reports an error
\* (a non-2xx status)
FetchedConfig(cfg, resp) == IF resp.status = "200" THEN resp ELSE cfg

\* a browser of each deployment calls fetchConfig(); the query succeeds or
\* fails for both alike
FetchConfig(dbOk) ==
  /\ respA' = GetConfig(rowA, dbOk)
  /\ respB' = GetConfig(rowB, dbOk)
  /\ configA' = FetchedConfig(configA, respA')
  /\ configB' = FetchedConfig(configB, respB')
  /\ UNCHANGED << rowA, rowB >>
  /\ UNCHANGED outsideConfig

\* any two stored configurations
InitConfig ==
  /\ InitHooks /\ InitSide /\ InitPolicy
  /\ role = "viewer"
  /\ rowA \in Rows \cup {NoRow}
  /\ rowB \in Rows \cup {NoRow}
  /\ respA = NoResponse
  /\ respB = NoResponse
  /\ configA = NoResponse
  /\ configB = NoResponse

NextConfig == \E dbOk \in BOOLEAN : FetchConfig(dbOk)

SpecConfig == InitConfig /\ [][NextConfig]_vars

\* the values of a response's fields
FieldValues(r) == {r[f] : f \in DOMAIN r}

\* the stored secrets
Secrets == {row.api_secret : row \in Rows}

\* C32: get-config never returns the API secret: no field of a response or of
\* the browser's config holds it, and two stored configurations that differ
\* only in api_secret get the same response.
C32_SecretNeverReturned ==
  /\ FieldValues(respA) \cap Secrets = {}
  /\ FieldValues(configA) \cap Secrets = {}
  /\ ([rowA EXCEPT !.api_secret = rowB.api_secret] = rowB /\ respA # NoResponse)
       => (respA = respB /\ configA = configB)

\* two configurations with different secrets were read and answered alike
C32_Witness ==
  /\ rowA # NoRow /\ rowB # NoRow /\ rowA.api_secret # rowB.api_secret
  /\ [rowA EXCEPT !.api_secret = rowB.api_secret] = rowB
  /\ respA.status = "200" /\ respA.configured = "true" /\ respA = respB
  /\ configA = respA

\* no room has a remote audio track or a screen-share track
NoMedia == \A k \in Rooms : sub[k] = {} /\ ~scr[k]

\* C31: a viewer connected to a room with no media stays connected and waiting:
\* its own timers never close the connection and never put the status back to
\* Idle, from where the page's auto-connect effect connects again.
C31_NoReconnectLoop ==
  [][(/\ role = "viewer" /\ NoMedia /\ RoomIsConnected(roomRef, rstate)
      /\ (TimeoutFires \/ TimeoutDisconnected))
       => (RoomIsConnected(roomRef', rstate') /\ status' # "idle")]_vars

\* C34: when the session is torn down (disconnect() has returned and no
\* connect() has made a new room since), the self-heal timeout is not armed,
\* also when disconnect() was called while connect() was in flight.
C34_NoTimerAfterTeardown ==
  (roomRef = NoRoom /\ dpc = "none") => ~timer

\* log a is a prefix of log b
IsPrefix(a, b) == Len(a) <= Len(b) /\ SubSeq(b, 1, Len(a)) = a

\* C36: the chat log is append-only: in every step (a send, a system send, a
\* delivery, the page's reaction to a status change) the log before the step is
\* a prefix of the log after it.
C36_LogAppendOnly ==
  [][IsPrefix(messages, messages')]_vars

\* ---- the data channel both listeners hear (part_000 68-92, 216-250) ----

\* a payload of another sender that carries the presenter-ready discriminator
\* together with the chat fields
ForeignReady ==
  Payload("object", "m3", "presenter-ready", "viewer-2", "viewer", "hi", "1")

ChannelInbox == ViewerInbox \cup {ForeignReady}

outsideChannel == << pageVars, effConnected, nSent, outbox, timedVars, rosterVars,
                     backoffVars, effectVars, registerVars, muteVars, configVars >>

\* the page's room state is set: both hooks register their listener on it
ChannelRoomSet ==
  /\ ~chatRoom
  /\ chatRoom' = TRUE
  /\ UNCHANGED << messages, lastPayload, presenterReady, readyDelivered, outsideChannel >>

\* the page's room state is cleared by a disconnect: both listeners are
\* removed and the "Reset when disconnected" effect clears presenterReady
ChannelRoomCleared ==
  /\ chatRoom
  /\ chatRoom' = FALSE
  /\ presenterReady' = FALSE
  /\ readyDelivered' = FALSE
  /\ UNCHANGED << messages, lastPayload, outsideChannel >>

\* one DataReceived event of the room: the room calls handleData and
\* handleDataReceived with the same payload
ChannelDataReceived(p) ==
  /\ chatRoom
  /\ Len(Received(messages, p)) <= MaxLog
  /\ messages' = Received(messages, p)
  /\ presenterReady' = HandleData(p, presenterReady)
  /\ readyDelivered' = (readyDelivered \/ (p.json = "object" /\ p.type = "presenter-ready"))
  /\ lastPayload' = p
  /\ UNCHANGED << chatRoom, outsideChannel >>

\* clearMessages() of the chat hook
ChannelClearMessages ==
  /\ messages # << >>
  /\ messages' = << >>
  /\ UNCHANGED << chatRoom, lastPayload, presenterReady, readyDelivered, outsideChannel >>

InitChannel == Init /\ role = "viewer"

NextChannel ==
  \/ ChannelRoomSet
  \/ ChannelRoomCleared
  \/ \E p \in ChannelInbox : ChannelDataReceived(p)
  \/ ChannelClearMessages

SpecChannel == InitChannel /\ [][NextChannel]_vars

\* C35: the two protocols on the data channel never interfere: the delivery of
\* a payload of type chat or system leaves presenterReady as it was, the
\* delivery of a payload of type presenter-ready leaves the chat log as it
\* was, and the delivery of a payload that does not parse to an object leaves
\* both as they were.
C35_ProtocolsDoNotInterfere ==
  [][\A p \in ChannelInbox : ChannelDataReceived(p) =>
       /\ (p.json = "object" /\ p.type \in {"chat", "system"})
            => presenterReady' = presenterReady
       /\ (p.json = "object" /\ p.type = "presenter-ready")
            => messages' = messages
       /\ p.json # "object"
            => (presenterReady' = presenterReady /\ messages' = messages)]_vars

\* ---- the grace timers of the participant list (ParticipantList.tsx 99-163) ----

\* "Cleanup timers on unmount", when the page is left: clearTimeout for every
\* handle in the map, the map cleared; the component's state is gone and a
\* later visit starts from the initial one
RosterUnmount ==
  /\ pending' = ClearTimeouts(graceTimers, pending, AllIdentities)
  /\ graceTimers' = [id \in AllIdentities |-> NoTimer]
  /\ roster' = << >>
  /\ known' = {}
  /\ localPresent' = FALSE
  /\ participants' = << >>
  /\ UNCHANGED << rosterNow, outsideRoster >>

NextGrace ==
  \/ NextRoster
  \/ RosterUnmount

SpecGrace == InitRoster /\ [][NextGrace]_vars

\* the identities of the live membership, as the props give it
LiveMembership == Identities(LiveEntries(localPresent, participants))

\* C40: in every reachable state of the roster no identity has more than one
\* grace timer pending, and an identity with a pending grace timer is not in
\* the live membership.
C40_OneGraceTimerPerAbsentIdentity ==
  \A id \in AllIdentities :
    /\ Len(pending[id]) <= 1
    /\ pending[id] # << >> => id \notin LiveMembership

\* two departed identities wait with timers of different deadlines while a
\* third participant is live and has none
C40_Witness ==
  /\ Len(pending["alice"]) = 1 /\ Len(pending["bob"]) = 1
  /\ pending["alice"] # pending["bob"]
  /\ "presenter-1" \in LiveMembership
  /\ pending["presenter-1"] = << >>
  /\ rosterNow >= 8000
====
